---------------------------- MODULE Spec2Model ----------------------------
(***************************************************************************)
(* A model of the markup_fmt parser (src/markup_fmt/src/parser.rs).        *)
(*                                                                         *)
(* The source text is a sequence of one-character strings over ASCII, so   *)
(* a byte offset is the number of characters before it.  The cursor        *)
(* `chars` (Peekable<CharIndices>) is the 0-based offset of the character  *)
(* that peek() would return; it equals Len(source) at end of input.        *)
(* A borrowed slice &'s str is the pair [s, e] of byte offsets, standing   *)
(* for source[s..e].                                                       *)
(*                                                                         *)
(* Every parse routine is an operator from the parser state p to a         *)
(* PResult: [ok |-> TRUE, val, p] or [ok |-> FALSE, err, p], where p is    *)
(* the parser state the routine leaves behind.  Two history fields of p    *)
(* (errors, trials) record the SyntaxErrors built and the try_parse calls  *)
(* made; the parser never reads them.                                      *)
(***************************************************************************)
EXTENDS Integers, Sequences, FiniteSets, TLC

VARIABLES source, language, chars, state, errors, trials, root, result, routine, pc

vars == <<source, language, chars, state, errors, trials, root, result, routine, pc>>

Languages == {"Html", "Vue", "Svelte", "Astro", "Jinja", "Vento"}

None == "None"

\* the grave accent character U+0060, which a TLA+ string cannot hold
Backtick == "U+0060"

---------------------------------------------------------------------------
(* Character classes (Rust char methods, restricted to ASCII)              *)

Upper == <<"A","B","C","D","E","F","G","H","I","J","K","L","M",
           "N","O","P","Q","R","S","T","U","V","W","X","Y","Z">>

Lower == <<"a","b","c","d","e","f","g","h","i","j","k","l","m",
           "n","o","p","q","r","s","t","u","v","w","x","y","z">>

Digits == {"0","1","2","3","4","5","6","7","8","9"}

Range(f) == {f[i] : i \in DOMAIN f}

is_ascii_alphanumeric(c) == c \in Range(Upper) \cup Range(Lower) \cup Digits

is_ascii_whitespace(c) == c \in {" ", "\t", "\n", "\f", "\r"}

to_ascii_lowercase(c) ==
    IF c \in Range(Upper)
    THEN Lower[CHOOSE i \in DOMAIN Upper : Upper[i] = c]
    ELSE c

char_eq_ignore_ascii_case(a, b) == to_ascii_lowercase(a) = to_ascii_lowercase(b)

is_tag_name_char(c) ==
    is_ascii_alphanumeric(c) \/ c \in {"-", "_", ".", ":", "\\"}

is_attr_name_char(c) ==
    c # None /\ c \notin {"\"", "'", ">", "/", "="} /\ ~is_ascii_whitespace(c)

is_unquoted_attr_value_char(c) ==
    c # None /\ ~is_ascii_whitespace(c) /\ c \notin {"\"", "'", "=", "<", ">", Backtick}

is_identifier_char(c) ==
    is_ascii_alphanumeric(c) \/ c \in {"-", "_", "\\"}

---------------------------------------------------------------------------
(* Slices of the source                                                    *)

Slice(s, e) == [s |-> s, e |-> e]

\* the text of a slice; get_unchecked(start..end) with end < start is empty here
Str(sl) == IF sl.e > sl.s THEN SubSeq(source, sl.s + 1, sl.e) ELSE <<>>

is_empty(sl) == sl.e <= sl.s

str_eq_ignore_ascii_case(a, b) ==
    /\ Len(a) = Len(b)
    /\ \A i \in 1..Len(a) : char_eq_ignore_ascii_case(a[i], b[i])

CountChar(str, c) == Cardinality({i \in 1..Len(str) : str[i] = c})

---------------------------------------------------------------------------
(* The cursor                                                              *)

CharAt(i) == IF i >= 0 /\ i < Len(source) THEN source[i + 1] ELSE None

peek(p) == CharAt(p.chars)

\* chars.peek().map(|(i, _)| *i).unwrap_or(self.source.len())
peek_pos(p) == IF p.chars < Len(source) THEN p.chars ELSE Len(source)

next(p) == IF p.chars < Len(source) THEN [p EXCEPT !.chars = @ + 1] ELSE p

\* chars.next_if(|(_, c)| *c == ch)
next_if_eq(p, ch) ==
    IF peek(p) = ch THEN [hit |-> TRUE, p |-> next(p)] ELSE [hit |-> FALSE, p |-> p]

\* a chain  next_if(c1).and_then(|_| next_if(c2))... : the characters that
\* matched stay consumed when a later one does not match
RECURSIVE next_if_seq(_, _, _)
next_if_seq(p, cs, ignore_case) ==
    IF cs = <<>> THEN [hit |-> TRUE, p |-> p]
    ELSE IF peek(p) # None /\
            (IF ignore_case THEN char_eq_ignore_ascii_case(peek(p), Head(cs))
                            ELSE peek(p) = Head(cs))
         THEN next_if_seq(next(p), Tail(cs), ignore_case)
         ELSE [hit |-> FALSE, p |-> p]

RECURSIVE skip_ws(_)
skip_ws(p) == IF is_ascii_whitespace(peek(p)) THEN skip_ws(next(p)) ELSE p

---------------------------------------------------------------------------
(* Results and errors                                                      *)

Ok(v, p) == [ok |-> TRUE, val |-> v, p |-> p]

\* Option<T>: a sequence of no or one value
Absent == <<>>

Some(v) == <<v>>

\* a SyntaxError { kind, pos } built while the cursor is at p; `by` names the
\* place that builds it. The history keeps every error built, with the offset
\* the cursor would read next at that moment (`at`) and whether an
\* alternative has succeeded since (`recovered`)
MkErr(kind, pos, by, p) ==
    [ok |-> FALSE,
     err |-> [kind |-> kind, pos |-> pos],
     p |-> [p EXCEPT !.errors =
                Append(@, [kind |-> kind, pos |-> pos, at |-> peek_pos(p), by |-> by,
                           recovered |-> FALSE])]]

\* emit_error with .unwrap_or(0) in place of .unwrap_or(self.source.len()):
\* C7_ErrorPositions tells it from the code
emit_error_unwrap_or_zero(kind, p) ==
    MkErr(kind, IF peek(p) = None THEN 0 ELSE p.chars, "emit_error", p)

emit_error(kind, p) == MkErr(kind, peek_pos(p), "emit_error", p)

\* the ? operator on a failed result: the error goes up as it is
Fail(r) == [ok |-> FALSE, err |-> r.err, p |-> r.p]

\* let r = routine()?; ... : the error of r goes up, or the routine goes on
\* with r
Try(r, Then(_)) == IF r.ok THEN Then(r) ELSE Fail(r)

\* let v = ...; ... : the routine goes on with v
With(v, Then(_)) == Then(v)

\* try_parse without `self.chars = chars`: C10_TrialFrame tells it from the code
try_parse_no_restore(p, r) == r

try_parse(p, r) == IF r.ok THEN r ELSE [r EXCEPT !.p.chars = p.chars]

\* try_parse as the parser calls it, with the call recorded in the history:
\* where the trial began, where the routine stopped, and what was left
Trial(p, r) ==
    LET q == try_parse(p, r)
    IN  [q EXCEPT !.p.trials = Append(@,
            [from |-> p.chars, flag |-> p.has_astro_front_matter, ok |-> r.ok,
             stop |-> r.p.chars, to |-> q.p.chars,
             flag_after |-> q.p.has_astro_front_matter,
             efrom |-> Len(p.errors), eto |-> Len(r.p.errors)])]

\* .or_else(|_| alt) after trials that began at p0, and the `false` of
\* try_parse(..).is_ok(): when the alternative succeeds, the errors built
\* since p0 are recovered
or_else(p0, alt) ==
    IF ~alt.ok THEN alt
    ELSE [alt EXCEPT !.p.errors =
              [i \in DOMAIN @ |->
                  IF i > Len(p0.errors) THEN [@[i] EXCEPT !.recovered = TRUE]
                  ELSE @[i]]]

ExpectChar(c) == "ExpectChar(" \o c \o ")"

---------------------------------------------------------------------------
(* Common primitives                                                       *)

IsClass(class, c) ==
    CASE class = "tag_name" -> is_tag_name_char(c)
      [] class = "attr_name" -> is_attr_name_char(c)
      [] class = "unquoted_attr_value" -> is_unquoted_attr_value_char(c)
      [] class = "identifier" -> is_identifier_char(c)

\* while let Some((i, _)) = self.chars.next_if(|(_, c)| pred(*c)) { end = i; }
RECURSIVE next_while(_, _)
next_while(p, class) ==
    IF IsClass(class, peek(p)) THEN next_while(next(p), class) ELSE p

\* loop { match self.chars.next() { Some((i, c)) if <c and what follows are
\* term> => { end = i; <consume term>; break } Some(..) => continue,
\* None => break } }   with end initialised to start
RECURSIVE scan_to(_, _, _)
scan_to(p, term, start) ==
    IF peek(p) = None THEN [end |-> start, p |-> p]
    ELSE IF next_if_seq(p, term, FALSE).hit
         THEN [end |-> p.chars, p |-> next_if_seq(p, term, FALSE).p]
         ELSE scan_to(next(p), term, start)

parse_tag_name(p) ==
    IF is_tag_name_char(peek(p))
    THEN LET q == next_while(next(p), "tag_name")
         IN  Ok(Slice(p.chars, q.chars), q)
    ELSE IF peek(p) = ">" /\ language = "Astro"
         THEN Ok(Slice(p.chars, p.chars), p)
         ELSE emit_error("ExpectTagName", p)

parse_attr_name(p) ==
    IF is_attr_name_char(peek(p))
    THEN LET q == next_while(next(p), "attr_name")
         IN  Ok(Slice(p.chars, q.chars), q)
    ELSE emit_error("ExpectAttrName", p)

parse_attr_value(p) ==
    IF peek(p) \in {"\"", "'"}
    THEN LET start == p.chars + 1
             sc == scan_to(next(p), <<peek(p)>>, start)
         IN  Ok(Slice(start, sc.end), sc.p)
    ELSE IF is_unquoted_attr_value_char(peek(p))
         THEN LET q == next_while(next(p), "unquoted_attr_value")
              IN  Ok(Slice(p.chars, q.chars), q)
         ELSE emit_error("ExpectAttrValue", p)

parse_comment(p) ==
    LET open == next_if_seq(p, <<"<", "!", "-", "-">>, FALSE)
    IN  IF ~open.hit THEN emit_error("ExpectComment", open.p)
        ELSE LET start == open.p.chars
                 sc == scan_to(open.p, <<"-", "-", ">">>, start)
             IN  Ok([type |-> "Comment", raw |-> Slice(start, sc.end)], sc.p)

parse_doctype(p) ==
    LET a == next_if_seq(p, <<"<", "!", "d", "o", "c", "t", "y", "p", "e">>, TRUE)
        b == next_if_seq(skip_ws(a.p), <<"h", "t", "m", "l">>, TRUE)
        c == next_if_eq(skip_ws(b.p), ">")
    IN  IF ~a.hit THEN emit_error("ExpectDoctype", a.p)
        ELSE IF ~b.hit THEN emit_error("ExpectDoctype", b.p)
        ELSE IF c.hit THEN Ok([type |-> "Doctype"], c.p)
        ELSE emit_error("ExpectDoctype", c.p)

parse_identifier(p) ==
    IF is_identifier_char(peek(p))
    THEN LET q == next_while(next(p), "identifier")
         IN  Ok(Slice(p.chars, q.chars), q)
    ELSE emit_error("ExpectIdentifier", p)

\* the 8-bit brace counters: += 1 and -= 1 on a u8
U8 == 256

\* for (i, c) in self.chars.by_ref() { ... } of parse_inside
RECURSIVE parse_inside_loop(_, _, _, _, _, _)
parse_inside_loop(p, open, close, inclusive, stack, start) ==
    LET c == peek(p)
    IN  IF c = None THEN [end |-> start, p |-> p]
        ELSE IF c = open
             THEN parse_inside_loop(next(p), open, close, inclusive,
                                    (stack + 1) % U8, start)
        ELSE IF c = close
             THEN IF stack = 0
                  THEN [end |-> IF inclusive THEN p.chars + 1 ELSE p.chars,
                        p |-> next(p)]
                  ELSE parse_inside_loop(next(p), open, close, inclusive,
                                         stack - 1, start)
        ELSE parse_inside_loop(next(p), open, close, inclusive, stack, start)

parse_inside(p, open, close, inclusive) ==
    IF peek(p) # open THEN emit_error(ExpectChar(open), p)
    ELSE LET start == IF inclusive THEN p.chars ELSE p.chars + 1
             sc == parse_inside_loop(next(p), open, close, inclusive, 0, start)
         IN  Ok(Slice(start, sc.end), sc.p)

parse_jinja_comment(p) ==
    LET open == next_if_seq(p, <<"{", "#">>, FALSE)
    IN  IF ~open.hit THEN emit_error("ExpectComment", open.p)
        ELSE LET start == open.p.chars
                 sc == scan_to(open.p, <<"#", "}">>, start)
             IN  Ok([type |-> "JinjaComment", raw |-> Slice(start, sc.end)], sc.p)

parse_jinja_tag(p) ==
    LET open == next_if_seq(p, <<"{", "%">>, FALSE)
    IN  IF ~open.hit THEN emit_error("ExpectJinjaTag", open.p)
        ELSE LET start == open.p.chars
                 sc == scan_to(open.p, <<"%", "}">>, start)
             IN  Ok([type |-> "JinjaTag", content |-> Slice(start, sc.end)], sc.p)

\* parse_mustache_interpolation with an error at end of input in place of
\* `None => break`: C8_UnterminatedAccepted tells it from the code
parse_mustache_interpolation_eof_error(p) ==
    LET open == next_if_seq(p, <<"{", "{">>, FALSE)
    IN  IF ~open.hit THEN emit_error("ExpectMustacheInterpolation", open.p)
        ELSE LET start == open.p.chars
                 sc == scan_to(open.p, <<"}", "}">>, start)
                 closed == /\ sc.p.chars = sc.end + 2
                           /\ CharAt(sc.end) = "}" /\ CharAt(sc.end + 1) = "}"
             IN  IF closed THEN Ok(Slice(start, sc.end), sc.p)
                 ELSE emit_error("ExpectMustacheInterpolation", sc.p)

parse_mustache_interpolation(p) ==
    LET open == next_if_seq(p, <<"{", "{">>, FALSE)
    IN  IF ~open.hit THEN emit_error("ExpectMustacheInterpolation", open.p)
        ELSE LET start == open.p.chars
                 sc == scan_to(open.p, <<"}", "}">>, start)
             IN  Ok(Slice(start, sc.end), sc.p)

parse_native_attr(p) ==
    LET name == parse_attr_name(p)
    IN  IF ~name.ok THEN Fail(name)
        ELSE LET eq == next_if_eq(skip_ws(name.p), "=")
                 value == parse_attr_value(skip_ws(eq.p))
             IN  IF ~eq.hit
                 THEN Ok([type |-> "NativeAttribute", name |-> name.val,
                          value |-> Absent], eq.p)
                 ELSE IF ~value.ok THEN Fail(value)
                 ELSE Ok([type |-> "NativeAttribute", name |-> name.val,
                          value |-> Some(value.val)], value.p)

\* one iteration of loop { match self.chars.next() { ... } } of
\* parse_svelte_or_astro_expr; done tells that the loop has been left
parse_svelte_or_astro_expr_step(st) ==
    LET c == peek(st.p)
    IN  IF st.done THEN st
        ELSE IF c = None THEN [st EXCEPT !.done = TRUE]
        ELSE IF c = "{"
             THEN [st EXCEPT !.p = next(st.p), !.braces_stack = (@ + 1) % U8]
        ELSE IF c = "}"
             THEN IF st.braces_stack = 0
                  THEN [st EXCEPT !.p = next(st.p), !.end = st.p.chars,
                                  !.done = TRUE]
                  ELSE [st EXCEPT !.p = next(st.p), !.braces_stack = @ - 1]
        ELSE [st EXCEPT !.p = next(st.p)]

\* n iterations of the loop: the first half of them and, unless the loop
\* has been left, the others (the evaluation nests as deep as the logarithm
\* of n, not as n)
RECURSIVE parse_svelte_or_astro_expr_loop(_, _)
parse_svelte_or_astro_expr_loop(st, n) ==
    IF n = 0 THEN st
    ELSE IF n = 1 THEN parse_svelte_or_astro_expr_step(st)
    ELSE With(parse_svelte_or_astro_expr_loop(st, n \div 2), LAMBDA half :
             IF half.done THEN half
             ELSE parse_svelte_or_astro_expr_loop(half, n - (n \div 2)))

\* the loop is left at the latest when every character from the cursor to
\* the end of input has been read and next() has returned None
parse_svelte_or_astro_expr(p) ==
    LET q == skip_ws(p)
        start == peek_pos(q)
        sc == parse_svelte_or_astro_expr_loop(
                  [p |-> q, braces_stack |-> 0, end |-> start, done |-> FALSE],
                  Len(source) - q.chars + 1)
    IN  Ok(Slice(start, sc.end), sc.p)

---------------------------------------------------------------------------
(* Attributes                                                              *)

\* parse_vue_directive keeping the `v-` in the name of a `v-` directive:
\* C12_VueDirectiveNames tells it from the code
parse_vue_directive_name_with_prefix(p) ==
    LET c == peek(p)
        ident == parse_identifier(next(next(p)))
        name == IF c \in {":", "@", "#"}
                THEN Ok(Slice(p.chars, p.chars + 1), next(p))
                ELSE IF c = "v" /\ CharAt(p.chars + 1) = "-"
                     THEN IF ident.ok THEN Ok(Slice(p.chars, ident.val.e), ident.p)
                          ELSE ident
                     ELSE emit_error("ExpectVueDirective", p)
    IN  IF ~name.ok THEN Fail(name)
        ELSE LET has_arg == \/ Str(name.val) \in {<<":">>, <<"@">>, <<"#">>}
                            \/ is_attr_name_char(peek(name.p))
                 arg == IF has_arg THEN parse_attr_name(name.p) ELSE Ok(Absent, name.p)
                 arg_and_modifiers == IF has_arg THEN Some(arg.val) ELSE Absent
             IN  IF ~arg.ok THEN Fail(arg)
                 ELSE LET eq == next_if_eq(skip_ws(arg.p), "=")
                          value == parse_attr_value(skip_ws(eq.p))
                      IN  IF ~eq.hit
                          THEN Ok([type |-> "VueDirective", name |-> name.val,
                                   arg_and_modifiers |-> arg_and_modifiers,
                                   value |-> Absent], eq.p)
                          ELSE IF ~value.ok THEN Fail(value)
                          ELSE Ok([type |-> "VueDirective", name |-> name.val,
                                   arg_and_modifiers |-> arg_and_modifiers,
                                   value |-> Some(value.val)], value.p)

parse_vue_directive(p) ==
    LET c == peek(p)
        name == IF c \in {":", "@", "#"}
                THEN Ok(Slice(p.chars, p.chars + 1), next(p))
                ELSE IF c = "v" /\ CharAt(p.chars + 1) = "-"
                     THEN parse_identifier(next(next(p)))
                     ELSE emit_error("ExpectVueDirective", p)
    IN  IF ~name.ok THEN Fail(name)
        ELSE LET has_arg == \/ Str(name.val) \in {<<":">>, <<"@">>, <<"#">>}
                            \/ is_attr_name_char(peek(name.p))
                 arg == IF has_arg THEN parse_attr_name(name.p) ELSE Ok(Absent, name.p)
                 arg_and_modifiers == IF has_arg THEN Some(arg.val) ELSE Absent
             IN  IF ~arg.ok THEN Fail(arg)
                 ELSE LET eq == next_if_eq(skip_ws(arg.p), "=")
                          value == parse_attr_value(skip_ws(eq.p))
                      IN  IF ~eq.hit
                          THEN Ok([type |-> "VueDirective", name |-> name.val,
                                   arg_and_modifiers |-> arg_and_modifiers,
                                   value |-> Absent], eq.p)
                          ELSE IF ~value.ok THEN Fail(value)
                          ELSE Ok([type |-> "VueDirective", name |-> name.val,
                                   arg_and_modifiers |-> arg_and_modifiers,
                                   value |-> Some(value.val)], value.p)

\* the common body of parse_svelte_attr and parse_astro_attr
parse_braced_attr(p, type, kind) ==
    LET name == parse_attr_name(p)
        eq == next_if_eq(skip_ws(name.p), "=")
        brace == next_if_eq(skip_ws(eq.p), "{")
        head == IF peek(p) = "{" THEN Ok(Absent, next(p))
                ELSE IF ~name.ok THEN Fail(name)
                ELSE IF ~eq.hit THEN emit_error(kind, eq.p)
                ELSE IF ~brace.hit THEN emit_error(kind, brace.p)
                ELSE Ok(Some(name.val), brace.p)
    IN  IF ~head.ok THEN head
        ELSE LET expr == parse_svelte_or_astro_expr(head.p)
             IN  Ok([type |-> type, name |-> head.val, expr |-> expr.val], expr.p)

parse_svelte_attr(p) == parse_braced_attr(p, "SvelteAttribute", "ExpectSvelteAttr")

parse_astro_attr(p) == parse_braced_attr(p, "AstroAttribute", "ExpectAstroAttr")

\* parse_attr without the dialect's own routine: C11_AttrVariants tells it
\* from the code
parse_attr_native_only(p) == parse_native_attr(p)

parse_attr(p) ==
    IF language \in {"Html", "Jinja", "Vento"} THEN parse_native_attr(p)
    ELSE With(Trial(p, CASE language = "Vue" -> parse_vue_directive(p)
                         [] language = "Svelte" -> parse_svelte_attr(p)
                         [] language = "Astro" -> parse_astro_attr(p)),
              LAMBDA t :
              IF t.ok THEN t ELSE or_else(p, parse_native_attr(t.p)))

---------------------------------------------------------------------------
(* Text nodes                                                              *)

\* lt_is_boundary without the `!` of a comment or doctype: C24_TextLt tells it
\* from the code
lt_is_boundary_no_bang(i) ==
    LET c == CharAt(i + 1)
    IN  \/ is_tag_name_char(c)
        \/ c = "/"
        \/ c = ">" /\ language = "Astro"

\* is the `<` at offset i a construct boundary (parse_text_node's test)
lt_is_boundary(i) ==
    LET c == CharAt(i + 1)
    IN  \/ is_tag_name_char(c)
        \/ c = "/"
        \/ c = "!"
        \/ c = ">" /\ language = "Astro"

\* brace_is_boundary without the `#` of a Jinja comment: C23_TextBraces tells
\* it from the code
brace_is_boundary_no_comment(i) ==
    CASE language = "Html" -> FALSE
      [] language \in {"Vue", "Vento"} -> CharAt(i + 1) = "{"
      [] language \in {"Svelte", "Astro"} -> TRUE
      [] language = "Jinja" -> CharAt(i + 1) \in {"%", "{"}

\* is the `{` at offset i a construct boundary of the language
brace_is_boundary(i) ==
    CASE language = "Html" -> FALSE
      [] language \in {"Vue", "Vento"} -> CharAt(i + 1) = "{"
      [] language \in {"Svelte", "Astro"} -> TRUE
      [] language = "Jinja" -> CharAt(i + 1) \in {"%", "{", "#"}

RECURSIVE parse_text_node_loop(_, _)
parse_text_node_loop(p, line_breaks) ==
    LET c == peek(p)
    IN  IF c = None
        THEN [end |-> Len(source), line_breaks |-> line_breaks, p |-> p]
        ELSE IF c = "{"
        THEN IF brace_is_boundary(p.chars)
             THEN [end |-> p.chars, line_breaks |-> line_breaks, p |-> p]
             ELSE parse_text_node_loop(next(p), line_breaks)
        ELSE IF c = "<"
        THEN IF lt_is_boundary(p.chars)
             THEN [end |-> p.chars, line_breaks |-> line_breaks, p |-> p]
             ELSE parse_text_node_loop(next(p), line_breaks)
        ELSE IF c = "-" /\ language = "Astro" /\ ~p.has_astro_front_matter
        THEN IF CharAt(p.chars + 1) = "-" /\ CharAt(p.chars + 2) = "-"
             THEN [end |-> p.chars, line_breaks |-> line_breaks, p |-> p]
             ELSE parse_text_node_loop(next(p), line_breaks)
        ELSE parse_text_node_loop(next(p),
                                  IF c = "\n" THEN line_breaks + 1 ELSE line_breaks)

\* parse_text_node that looks at the first character without taking it and
\* returns an empty text: C16_Progress tells it from the code
parse_text_node_peek_only(p) ==
    LET first_char == peek(p)
        taken == /\ first_char # None
                 /\ (language \in {"Vue", "Svelte"} => first_char # "{")
    IN  IF ~taken THEN emit_error("ExpectTextNode", p)
        ELSE Ok([type |-> "TextNode", raw |-> Slice(p.chars, p.chars),
                 line_breaks |-> 0], p)

\* parse_text_node with `let mut line_breaks = 0` whatever the first
\* character is: C1_LineBreaks tells it from the code
parse_text_node_first_uncounted(p) ==
    LET first_char == peek(p)
        taken == /\ first_char # None
                 /\ (language \in {"Vue", "Svelte"} => first_char # "{")
        q == next(p)
    IN  IF ~taken THEN emit_error("ExpectTextNode", p)
        ELSE IF language = "Vue" /\ first_char = "{" /\ peek(q) = "{"
        THEN emit_error("ExpectTextNode", q)
        ELSE LET sc == parse_text_node_loop(q, 0)
             IN  Ok([type |-> "TextNode", raw |-> Slice(p.chars, sc.end),
                     line_breaks |-> sc.line_breaks], sc.p)

parse_text_node(p) ==
    LET first_char == peek(p)
        taken == /\ first_char # None
                 /\ (language \in {"Vue", "Svelte"} => first_char # "{")
        q == next(p)
    IN  IF ~taken THEN emit_error("ExpectTextNode", p)
        ELSE IF language = "Vue" /\ first_char = "{" /\ peek(q) = "{"
        THEN emit_error("ExpectTextNode", q)
        ELSE LET sc == parse_text_node_loop(q, IF first_char = "\n" THEN 1 ELSE 0)
             IN  Ok([type |-> "TextNode", raw |-> Slice(p.chars, sc.end),
                     line_breaks |-> sc.line_breaks], sc.p)

\* chars.zip(tag_name.chars()).all(|((_, a), b)| a.eq_ignore_ascii_case(&b))
\* for the characters from offset i on
zip_all_eq(i, tag_name) ==
    \A k \in 1..Len(tag_name) :
        CharAt(i + k - 1) # None => char_eq_ignore_ascii_case(CharAt(i + k - 1), tag_name[k])

RECURSIVE parse_raw_text_node_loop(_, _, _)
parse_raw_text_node_loop(p, tag_name, line_breaks) ==
    LET c == peek(p)
    IN  IF c = None
        THEN [end |-> Len(source), line_breaks |-> line_breaks, p |-> p]
        ELSE IF c = "<"
        THEN IF CharAt(p.chars + 1) = "/" /\ zip_all_eq(p.chars + 2, tag_name)
             THEN [end |-> p.chars, line_breaks |-> line_breaks, p |-> p]
             ELSE parse_raw_text_node_loop(next(p), tag_name, line_breaks)
        ELSE parse_raw_text_node_loop(next(p), tag_name,
                                      IF c = "\n" THEN line_breaks + 1 ELSE line_breaks)

parse_raw_text_node(p, tag_name) ==
    LET sc == parse_raw_text_node_loop(p, tag_name, 0)
    IN  Ok([type |-> "TextNode", raw |-> Slice(peek_pos(p), sc.end),
            line_breaks |-> sc.line_breaks], sc.p)

---------------------------------------------------------------------------
(* Astro front matter                                                      *)

last(stack) == IF stack = <<>> THEN None ELSE stack[Len(stack)]

pop(stack) == SubSeq(stack, 1, Len(stack) - 1)

\* history of the loop below: the offset an iteration read and the
\* pair_stack it began with, put before the history of the iterations after
seen(p, pair_stack, sc) ==
    [sc EXCEPT !.scan = <<[at |-> p.chars, stack |-> pair_stack]>> \o @]

\* loop { match self.chars.next() { ... } } of parse_astro_front_matter;
\* p is the cursor before the next() of this iteration
RECURSIVE parse_astro_front_matter_loop(_, _, _)
parse_astro_front_matter_loop(p, pair_stack, start) ==
    LET c == peek(p)
        q == next(p)
        top == last(pair_stack)
    IN  IF c = None THEN [end |-> start, p |-> p, scan |-> <<>>]
        ELSE seen(p, pair_stack,
        IF c = "-" /\ pair_stack = <<>>
        THEN IF next_if_seq(q, <<"-", "-">>, FALSE).hit
             THEN [end |-> p.chars, p |-> next_if_seq(q, <<"-", "-">>, FALSE).p,
                   scan |-> <<>>]
             ELSE parse_astro_front_matter_loop(q, pair_stack, start)
        ELSE IF c \in {"'", "\"", Backtick}
        THEN IF top = c
             THEN parse_astro_front_matter_loop(q, pop(pair_stack), start)
             ELSE IF top \in {"$", "{", None}
                  THEN parse_astro_front_matter_loop(q, Append(pair_stack, c), start)
                  ELSE parse_astro_front_matter_loop(q, pair_stack, start)
        ELSE IF c = "$" /\ top = Backtick
        THEN IF peek(q) = "{"
             THEN parse_astro_front_matter_loop(next(q), Append(pair_stack, "$"), start)
             ELSE parse_astro_front_matter_loop(q, pair_stack, start)
        ELSE IF c = "{" /\ top \in {"$", "{", None}
        THEN parse_astro_front_matter_loop(q, Append(pair_stack, "{"), start)
        ELSE IF c = "}" /\ top \in {"$", "{"}
        THEN parse_astro_front_matter_loop(q, pop(pair_stack), start)
        ELSE IF c = "/" /\ top \in {"$", "}", None}
        THEN IF peek(q) \in {"/", "*"}
             THEN parse_astro_front_matter_loop(next(q), Append(pair_stack, peek(q)), start)
             ELSE parse_astro_front_matter_loop(q, pair_stack, start)
        ELSE IF c = "\n"
        THEN parse_astro_front_matter_loop(
                 q, IF top = "/" THEN pop(pair_stack) ELSE pair_stack, start)
        ELSE IF c = "*"
        THEN IF peek(q) = "/" /\ top = "*"
             THEN parse_astro_front_matter_loop(next(q), pop(pair_stack), start)
             ELSE parse_astro_front_matter_loop(q, pair_stack, start)
        ELSE IF c = "\\" /\ top \in {"'", "\"", Backtick}
        THEN parse_astro_front_matter_loop(next(q), pair_stack, start)
        ELSE parse_astro_front_matter_loop(q, pair_stack, start))

\* parse_astro_front_matter without `self.state.has_astro_front_matter = true`:
\* C14_FrontMatterOnce tells it from the code
parse_astro_front_matter_flag_unset(p) ==
    LET open == next_if_seq(p, <<"-", "-", "-">>, FALSE)
    IN  IF ~open.hit THEN emit_error("ExpectAstroFrontMatter", open.p)
        ELSE LET start == open.p.chars
                 sc == parse_astro_front_matter_loop(open.p, <<>>, start)
             IN  Ok([type |-> "AstroFrontMatter", raw |-> Slice(start, sc.end),
                     scan |-> sc.scan], sc.p)

parse_astro_front_matter(p) ==
    LET open == next_if_seq(p, <<"-", "-", "-">>, FALSE)
    IN  IF ~open.hit THEN emit_error("ExpectAstroFrontMatter", open.p)
        ELSE LET start == open.p.chars
                 sc == parse_astro_front_matter_loop(open.p, <<>>, start)
             IN  Ok([type |-> "AstroFrontMatter", raw |-> Slice(start, sc.end),
                     scan |-> sc.scan],
                    [sc.p EXCEPT !.has_astro_front_matter = TRUE])

---------------------------------------------------------------------------
(* Elements                                                                *)

VOID_ELEMENTS ==
    {<<"a", "r", "e", "a">>, <<"b", "a", "s", "e">>, <<"b", "r">>, <<"c", "o", "l">>, <<"e", "m", "b", "e", "d">>, <<"h", "r">>, <<"i", "m", "g">>, <<"i", "n", "p", "u", "t">>,
     <<"l", "i", "n", "k">>, <<"m", "e", "t", "a">>, <<"p", "a", "r", "a", "m">>, <<"s", "o", "u", "r", "c", "e">>, <<"t", "r", "a", "c", "k">>, <<"w", "b", "r">>}

\* helpers::is_void_element(name, language)
is_void_element(name) ==
    IF language \in {"Html", "Jinja", "Vento"}
    THEN \E v \in VOID_ELEMENTS : str_eq_ignore_ascii_case(v, name)
    ELSE name \in VOID_ELEMENTS

\* is_raw_text_element without `pre`: C26_RawText tells it from the code
is_raw_text_element_no_pre(name) ==
    \E t \in {<<"s", "c", "r", "i", "p", "t">>, <<"s", "t", "y", "l", "e">>, <<"t", "e", "x", "t", "a", "r", "e", "a">>} : str_eq_ignore_ascii_case(name, t)

is_raw_text_element(name) ==
    \E t \in {<<"s", "c", "r", "i", "p", "t">>, <<"s", "t", "y", "l", "e">>, <<"p", "r", "e">>, <<"t", "e", "x", "t", "a", "r", "e", "a">>} : str_eq_ignore_ascii_case(name, t)

RECURSIVE parse_node(_)

\* the attribute loop of parse_element; `ending` tells how the open tag ended
RECURSIVE parse_element_attrs(_, _, _)
parse_element_attrs(p, attrs, first_attr_same_line) ==
    LET c == peek(p)
    IN  IF c = "/"
        THEN IF peek(next(p)) = ">"
             THEN Ok([attrs |-> attrs, first_attr_same_line |-> first_attr_same_line,
                      ending |-> "/>"], next(next(p)))
             ELSE emit_error("ExpectSelfCloseTag", next(p))
        ELSE IF c = ">"
        THEN Ok([attrs |-> attrs, first_attr_same_line |-> first_attr_same_line,
                 ending |-> ">"], next(p))
        ELSE IF c = "\n"
        THEN parse_element_attrs(next(p), attrs,
                                 IF attrs = <<>> THEN FALSE ELSE first_attr_same_line)
        ELSE IF is_ascii_whitespace(c)
        THEN parse_element_attrs(next(p), attrs, first_attr_same_line)
        ELSE Try(parse_attr(p), LAMBDA attr :
                 parse_element_attrs(attr.p, Append(attrs, attr.val),
                                     first_attr_same_line))

\* the child loop of parse_element without the comparison of the close tag's
\* name with the open tag's: C3_CloseTagMatches tells it from the code
RECURSIVE parse_element_children_any_close_tag(_, _, _)
parse_element_children_any_close_tag(p, tag_name, children) ==
    LET c == peek(p)
    IN  IF c = None THEN emit_error("ExpectCloseTag", p)
        ELSE IF c = "<" /\ CharAt(p.chars + 1) = "/"
        THEN Try(parse_tag_name(next(next(p))), LAMBDA close_tag_name :
             With(next_if_eq(skip_ws(close_tag_name.p), ">"), LAMBDA gt :
             IF gt.hit THEN Ok(children, gt.p)
             ELSE emit_error("ExpectCloseTag", gt.p)))
        ELSE Try(IF c # "<" /\ is_raw_text_element(tag_name)
                 THEN parse_raw_text_node(p, tag_name)
                 ELSE parse_node(p),
                 LAMBDA child :
                 parse_element_children_any_close_tag(child.p, tag_name, Append(children, child.val)))

\* the child loop of parse_element
RECURSIVE parse_element_children(_, _, _)
parse_element_children(p, tag_name, children) ==
    LET c == peek(p)
    IN  IF c = None THEN emit_error("ExpectCloseTag", p)
        ELSE IF c = "<" /\ CharAt(p.chars + 1) = "/"
        THEN Try(parse_tag_name(next(next(p))), LAMBDA close_tag_name :
             IF ~str_eq_ignore_ascii_case(Str(close_tag_name.val), tag_name)
             THEN MkErr("ExpectCloseTag", p.chars + 1, "parse_element",
                        close_tag_name.p)
             ELSE
             With(next_if_eq(skip_ws(close_tag_name.p), ">"), LAMBDA gt :
             IF gt.hit THEN Ok(children, gt.p)
             ELSE emit_error("ExpectCloseTag", gt.p)))
        ELSE Try(IF c # "<" /\ is_raw_text_element(tag_name)
                 THEN parse_raw_text_node(p, tag_name)
                 ELSE parse_node(p),
                 LAMBDA child :
                 parse_element_children(child.p, tag_name, Append(children, child.val)))

Element(tag_name, head, children, self_closing, void_element, p) ==
    Ok([type |-> "Element", tag_name |-> tag_name, attrs |-> head.attrs,
        first_attr_same_line |-> head.first_attr_same_line,
        children |-> children, self_closing |-> self_closing,
        void_element |-> void_element, end |-> p.chars], p)

\* the content of a non-void element after its open tag, up to the close tag
parse_element_content(p, tag_name, head, void_element) ==
    With(Str(tag_name), LAMBDA name :
    Try(IF is_raw_text_element(name)
        THEN With(parse_raw_text_node(p, name), LAMBDA text_node :
                  parse_element_children(
                      text_node.p, name,
                      IF is_empty(text_node.val.raw) THEN <<>>
                      ELSE <<text_node.val>>))
        ELSE parse_element_children(p, name, <<>>),
        LAMBDA body :
        Element(tag_name, head, body.val, FALSE, void_element, body.p)))

\* parse_element without the early return for a void element:
\* C2_VoidOrSelfClosingEmpty tells it from the code
parse_element_void_with_children(p) ==
    IF peek(p) # "<" THEN emit_error("ExpectElement", p)
    ELSE
    Try(parse_tag_name(next(p)), LAMBDA tag_name :
    With(is_void_element(Str(tag_name.val)), LAMBDA void_element :
    Try(parse_element_attrs(tag_name.p, <<>>, TRUE), LAMBDA head :
    IF head.val.ending = "/>"
    THEN Element(tag_name.val, head.val, <<>>, TRUE, void_element, head.p)
    ELSE parse_element_content(head.p, tag_name.val, head.val, void_element))))

parse_element(p) ==
    IF peek(p) # "<" THEN emit_error("ExpectElement", p)
    ELSE
    Try(parse_tag_name(next(p)), LAMBDA tag_name :
    With(is_void_element(Str(tag_name.val)), LAMBDA void_element :
    Try(parse_element_attrs(tag_name.p, <<>>, TRUE), LAMBDA head :
    IF head.val.ending = "/>"
    THEN Element(tag_name.val, head.val, <<>>, TRUE, void_element, head.p)
    ELSE IF void_element
    THEN Element(tag_name.val, head.val, <<>>, FALSE, void_element, head.p)
    ELSE parse_element_content(head.p, tag_name.val, head.val, void_element))))

---------------------------------------------------------------------------
(* Astro expressions                                                       *)

\* children.last_mut() never seen as a Template: C4_ScriptTemplateAlternate
\* tells it from the code
last_is_template_never(children) == FALSE

last_is_template(children) ==
    children # <<>> /\ children[Len(children)].variant = "Template"

\* if let Some(AstroExprChild::Template(nodes)) = children.last_mut()
\*     { nodes.push(node) }
push_to_last_template(children, node) ==
    [children EXCEPT ![Len(children)].nodes = Append(@, node)]

\* the flush that keeps whitespace as a Script child: C27_WhitespaceFolded
\* tells it from the code
astro_expr_flush_unfolded(children, pos, i) ==
    IF pos >= i THEN children
    ELSE Append(children, [variant |-> "Script", raw |-> Slice(pos, i)])

\* the flush of the script text source[pos..i] before a template node
astro_expr_flush(children, pos, i) ==
    LET prev == SubSeq(source, pos + 1, i)
    IN  IF prev = <<>> THEN children
        ELSE IF \A k \in 1..Len(prev) : is_ascii_whitespace(prev[k])
        THEN IF last_is_template(children)
             THEN push_to_last_template(children,
                      [type |-> "TextNode", raw |-> Slice(pos, i),
                       line_breaks |-> CountChar(prev, "\n")])
             ELSE children
        ELSE Append(children, [variant |-> "Script", raw |-> Slice(pos, i)])

\* while let Some((i, c)) = self.chars.peek() { ... } of parse_astro_expr
RECURSIVE parse_astro_expr_loop(_, _, _, _)
parse_astro_expr_loop(p, children, braces_stack, pos) ==
    LET c == peek(p)
        i == p.chars
    IN  IF c = None THEN Ok(children, p)
        ELSE IF c = "{"
        THEN parse_astro_expr_loop(next(p), children, (braces_stack + 1) % U8, pos)
        ELSE IF c = "}"
        THEN IF braces_stack = 0
             THEN Ok(Append(children, [variant |-> "Script", raw |-> Slice(pos, i)]),
                     next(p))
             ELSE parse_astro_expr_loop(next(p), children, braces_stack - 1, pos)
        ELSE IF c = "<" /\ (\/ is_tag_name_char(CharAt(i + 1))
                            \/ CharAt(i + 1) \in {"!", ">"})
        THEN With(astro_expr_flush(children, pos, i), LAMBDA flushed :
             Try(parse_node(p), LAMBDA node :
                 parse_astro_expr_loop(
                     node.p,
                     IF last_is_template(flushed)
                     THEN push_to_last_template(flushed, node.val)
                     ELSE Append(flushed, [variant |-> "Template",
                                           nodes |-> <<node.val>>]),
                     braces_stack, peek_pos(node.p))))
        ELSE parse_astro_expr_loop(next(p), children, braces_stack, pos)

parse_astro_expr(p) ==
    IF peek(p) # "{" THEN emit_error("ExpectAstroExpr", p)
    ELSE Try(parse_astro_expr_loop(next(p), <<>>, 0, peek_pos(next(p))),
             LAMBDA r : Ok([type |-> "AstroExpr", children |-> r.val], r.p))

---------------------------------------------------------------------------
(* Jinja                                                                   *)

RECURSIVE drop_while_in(_, _)
drop_while_in(str, set) ==
    IF str # <<>> /\ Head(str) \in set THEN drop_while_in(Tail(str), set) ELSE str

Whitespace == {" ", "\t", "\n", "\f", "\r"}

\* the text before the first ASCII whitespace character, or all of it
RECURSIVE first_token(_)
first_token(str) ==
    IF str = <<>> \/ Head(str) \in Whitespace THEN <<>>
    ELSE <<Head(str)>> \o first_token(Tail(str))

parse_jinja_tag_name(tag) ==
    first_token(drop_while_in(drop_while_in(Str(tag.content), {"+", "-"}), Whitespace))

JinjaBlockNames ==
    {<<"f", "o", "r">>, <<"i", "f">>, <<"m", "a", "c", "r", "o">>, <<"c", "a", "l", "l">>, <<"f", "i", "l", "t", "e", "r">>, <<"b", "l", "o", "c", "k">>, <<"a", "p", "p", "l", "y">>,
     <<"a", "u", "t", "o", "e", "s", "c", "a", "p", "e">>, <<"e", "m", "b", "e", "d">>, <<"w", "i", "t", "h">>}

RECURSIVE parse_jinja_block_children(_, _)
parse_jinja_block_children(p, children) ==
    LET c == peek(p)
    IN  IF c = None THEN emit_error("ExpectJinjaBlockEnd", p)
        ELSE IF c = "{" /\ CharAt(p.chars + 1) = "%" THEN Ok(children, p)
        ELSE Try(parse_node(p), LAMBDA node :
                 parse_jinja_block_children(node.p, Append(children, node.val)))

JTag(tag) == [variant |-> "Tag", tag |-> tag]

Children(nodes) == [variant |-> "Children", nodes |-> nodes]

RECURSIVE parse_jinja_tag_or_block(_, _)

\* the loop of parse_jinja_tag_or_block closing the block at any tag whose
\* name begins with `end`: C5_JinjaBlockDelimited tells it from the code
RECURSIVE parse_jinja_block_loop_any_end(_, _, _)
parse_jinja_block_loop_any_end(p, tag_name, body) ==
    Try(parse_jinja_block_children(p, <<>>), LAMBDA children :
    With(IF children.val # <<>> THEN Append(body, Children(children.val))
         ELSE body,
         LAMBDA body1 :
    With(parse_jinja_tag(children.p), LAMBDA next_tag :
    IF ~next_tag.ok THEN Ok(body1, next_tag.p)
    ELSE
    With(parse_jinja_tag_name(next_tag.val), LAMBDA next_tag_name :
    IF Len(next_tag_name) >= 3 /\ SubSeq(next_tag_name, 1, 3) = <<"e", "n", "d">>
    THEN Ok(Append(body1, JTag(next_tag.val)), next_tag.p)
    ELSE IF /\ tag_name \in {<<"i", "f">>, <<"f", "o", "r">>}
            /\ next_tag_name \in {<<"e", "l", "i", "f">>,
                                  <<"e", "l", "s", "e", "i", "f">>,
                                  <<"e", "l", "s", "e">>}
    THEN parse_jinja_block_loop_any_end(next_tag.p, tag_name, Append(body1, JTag(next_tag.val)))
    ELSE Try(parse_jinja_tag_or_block(next_tag.p, Some(next_tag.val)),
             LAMBDA inner :
             parse_jinja_block_loop_any_end(inner.p, tag_name, Append(body1, Children(<<inner.val>>))))))))

\* loop { ... } of parse_jinja_tag_or_block
RECURSIVE parse_jinja_block_loop(_, _, _)
parse_jinja_block_loop(p, tag_name, body) ==
    Try(parse_jinja_block_children(p, <<>>), LAMBDA children :
    With(IF children.val # <<>> THEN Append(body, Children(children.val))
         ELSE body,
         LAMBDA body1 :
    With(parse_jinja_tag(children.p), LAMBDA next_tag :
    IF ~next_tag.ok THEN Ok(body1, next_tag.p)
    ELSE
    With(parse_jinja_tag_name(next_tag.val), LAMBDA next_tag_name :
    IF next_tag_name = <<"e", "n", "d">> \o tag_name
    THEN Ok(Append(body1, JTag(next_tag.val)), next_tag.p)
    ELSE IF /\ tag_name \in {<<"i", "f">>, <<"f", "o", "r">>}
            /\ next_tag_name \in {<<"e", "l", "i", "f">>,
                                  <<"e", "l", "s", "e", "i", "f">>,
                                  <<"e", "l", "s", "e">>}
    THEN parse_jinja_block_loop(next_tag.p, tag_name, Append(body1, JTag(next_tag.val)))
    ELSE Try(parse_jinja_tag_or_block(next_tag.p, Some(next_tag.val)),
             LAMBDA inner :
             parse_jinja_block_loop(inner.p, tag_name, Append(body1, Children(<<inner.val>>))))))))

\* parse_jinja_tag_or_block without the `?` on the body of the block: a body
\* that fails gives the block of what was parsed. C13_EndOfInputInContainer
\* tells it from the code
parse_jinja_tag_or_block_body_unchecked(p, first_tag) ==
    Try(IF first_tag # Absent THEN Ok(first_tag[1], p) ELSE parse_jinja_tag(p),
        LAMBDA first :
    With(parse_jinja_tag_name(first.val), LAMBDA tag_name :
    IF tag_name \in JinjaBlockNames
    THEN With(parse_jinja_block_loop(first.p, tag_name, <<JTag(first.val)>>),
              LAMBDA body :
              Ok([type |-> "JinjaBlock",
                  body |-> IF body.ok THEN body.val ELSE <<JTag(first.val)>>],
                 body.p))
    ELSE Ok(first.val, first.p)))

parse_jinja_tag_or_block(p, first_tag) ==
    Try(IF first_tag # Absent THEN Ok(first_tag[1], p) ELSE parse_jinja_tag(p),
        LAMBDA first :
    With(parse_jinja_tag_name(first.val), LAMBDA tag_name :
    IF tag_name \in JinjaBlockNames
    THEN Try(parse_jinja_block_loop(first.p, tag_name, <<JTag(first.val)>>),
             LAMBDA body :
             Ok([type |-> "JinjaBlock", body |-> body.val], body.p))
    ELSE Ok(first.val, first.p)))

---------------------------------------------------------------------------
(* Vento                                                                   *)

RECURSIVE trim_end(_)
trim_end(str) ==
    IF str # <<>> /\ str[Len(str)] \in Whitespace
    THEN trim_end(SubSeq(str, 1, Len(str) - 1)) ELSE str

trim(str) == trim_end(drop_while_in(str, Whitespace))

starts_with(str, prefix) ==
    Len(str) >= Len(prefix) /\ SubSeq(str, 1, Len(prefix)) = prefix

\* helpers::parse_vento_tag(tag): the name and the rest of a tag
parse_vento_tag(tag) ==
    LET trimmed == trim(tag)
        name == first_token(trimmed)
    IN  IF Len(name) < Len(trimmed)
        THEN <<name, SubSeq(trimmed, Len(name) + 2, Len(trimmed))>>
        ELSE <<trimmed, <<>> >>

is_vento_interpolation(tag_name) ==
    tag_name \notin {<<"i", "f">>, <<"e", "l", "s", "e">>, <<"f", "o", "r">>, <<"s", "e", "t">>, <<"i", "n", "c", "l", "u", "d", "e">>, <<"l", "a", "y", "o", "u", "t">>, <<"a", "s", "y", "n", "c">>,
                     <<"f", "u", "n", "c", "t", "i", "o", "n">>, <<"i", "m", "p", "o", "r", "t">>, <<"e", "x", "p", "o", "r", "t">>}

RECURSIVE parse_vento_block_children(_, _)
parse_vento_block_children(p, children) ==
    LET c == peek(p)
    IN  IF c = None THEN emit_error("ExpectVentoBlockEnd", p)
        ELSE IF c = "{" /\ CharAt(p.chars + 1) = "{" THEN Ok(children, p)
        ELSE Try(parse_node(p), LAMBDA node :
                 parse_vento_block_children(node.p, Append(children, node.val)))

VTag(tag) == [variant |-> "Tag", tag |-> [type |-> "VentoTag", tag |-> tag]]

last_is_children(body) == body # <<>> /\ body[Len(body)].variant = "Children"

\* nodes.append(&mut children) on the last Children entry, or a new entry
vento_add_children(body, nodes) ==
    IF nodes = <<>> THEN body
    ELSE IF last_is_children(body)
         THEN [body EXCEPT ![Len(body)].nodes = @ \o nodes]
         ELSE Append(body, Children(nodes))

RECURSIVE parse_vento_tag_or_block(_, _)

\* loop { ... } of parse_vento_tag_or_block
RECURSIVE parse_vento_block_loop(_, _, _, _)
parse_vento_block_loop(p, tag_name, is_function, body) ==
    Try(parse_vento_block_children(p, <<>>), LAMBDA children :
    With(vento_add_children(body, children.val), LAMBDA body1 :
    With(parse_mustache_interpolation(children.p), LAMBDA next_tag :
    IF ~next_tag.ok THEN Ok(body1, next_tag.p)
    ELSE
    With(parse_vento_tag(Str(next_tag.val))[1], LAMBDA next_tag_name :
    With(trim(next_tag_name), LAMBDA trimmed :
    IF /\ starts_with(trimmed, <<"/">>)
       /\ \/ Tail(trimmed) = tag_name
          \/ is_function /\ Tail(trimmed) = <<"f", "u", "n", "c", "t", "i", "o", "n">>
    THEN Ok(Append(body1, VTag(next_tag.val)), next_tag.p)
    ELSE IF tag_name = <<"i", "f">> /\ next_tag_name = <<"e", "l", "s", "e">>
    THEN parse_vento_block_loop(next_tag.p, tag_name, is_function,
                                Append(body1, VTag(next_tag.val)))
    ELSE Try(parse_vento_tag_or_block(next_tag.p, Some(next_tag.val)),
             LAMBDA node :
             parse_vento_block_loop(node.p, tag_name, is_function,
                                    vento_add_children(body1, <<node.val>>))))))))

parse_vento_tag_or_block(p, first_tag_opt) ==
    Try(IF first_tag_opt # Absent THEN Ok(first_tag_opt[1], p)
        ELSE parse_mustache_interpolation(p),
        LAMBDA first :
    LET first_tag == first.val
        text == Str(first_tag)
        tag_name == parse_vento_tag(text)[1]
        tag_rest == parse_vento_tag(text)[2]
        is_function == \/ tag_name = <<"f", "u", "n", "c", "t", "i", "o", "n">>
                       \/ /\ tag_name \in {<<"a", "s", "y", "n", "c">>, <<"e", "x", "p", "o", "r", "t">>}
                          /\ starts_with(tag_rest, <<"f", "u", "n", "c", "t", "i", "o", "n">>)
        is_block == \/ tag_name \in {<<"f", "o", "r">>, <<"i", "f">>, <<"l", "a", "y", "o", "u", "t">>}
                    \/ /\ tag_name \in {<<"s", "e", "t">>, <<"e", "x", "p", "o", "r", "t">>}
                       /\ \A k \in 1..Len(text) : text[k] # "="
                    \/ is_function
    IN  IF Len(text) >= 2 /\ text[1] = "#" /\ text[Len(text)] = "#"
        THEN Ok([type |-> "VentoComment",
                 raw |-> Slice(first_tag.s + 1, first_tag.e - 1)], first.p)
        ELSE IF starts_with(text, <<">">>)
        THEN Ok([type |-> "VentoEval", raw |-> Slice(first_tag.s + 1, first_tag.e)],
                first.p)
        ELSE IF is_block
        THEN Try(parse_vento_block_loop(first.p, tag_name, is_function,
                                        <<VTag(first_tag)>>),
                 LAMBDA body :
                 Ok([type |-> "VentoBlock", body |-> body.val], body.p))
        ELSE IF is_vento_interpolation(tag_name)
        THEN Ok([type |-> "VentoInterpolation", expr |-> first_tag], first.p)
        ELSE Ok([type |-> "VentoTag", tag |-> first_tag], first.p))

---------------------------------------------------------------------------
(* Svelte                                                                  *)

\* a chain of next_if calls that must all match, or else the error `kind`
expect_seq(p, cs, kind) ==
    LET h == next_if_seq(p, cs, FALSE)
    IN  IF h.hit THEN Ok(Absent, h.p) ELSE emit_error(kind, h.p)

\* the same chain followed by next_if(|(_, c)| c.is_ascii_whitespace())
expect_keyword_ws(p, cs, kind) ==
    LET h == next_if_seq(p, cs, FALSE)
    IN  IF h.hit /\ is_ascii_whitespace(peek(h.p)) THEN Ok(Absent, next(h.p))
        ELSE emit_error(kind, h.p)

\* the closing chain  {/name  skip_ws  }  of a block
expect_block_end(p, cs) ==
    LET h == next_if_seq(p, cs, FALSE)
        close == next_if_eq(skip_ws(h.p), "}")
    IN  IF ~h.hit THEN emit_error("ExpectSvelteBlockEnd", h.p)
        ELSE IF ~close.hit THEN emit_error("ExpectSvelteBlockEnd", close.p)
        ELSE Ok(Absent, close.p)

parse_svelte_at_tag(p) ==
    Try(expect_seq(p, <<"{", "@">>, "ExpectSvelteAtTag"), LAMBDA open :
    Try(parse_identifier(open.p), LAMBDA name :
    With(parse_svelte_or_astro_expr(skip_ws(name.p)), LAMBDA expr :
        Ok([type |-> "SvelteAtTag", name |-> name.val, expr |-> expr.val],
           expr.p))))

parse_svelte_binding(p) ==
    IF peek(p) = "{" THEN parse_inside(p, "{", "}", TRUE)
    ELSE IF peek(p) = "[" THEN parse_inside(p, "[", "]", TRUE)
    ELSE parse_identifier(p)

RECURSIVE parse_svelte_block_children(_, _)
parse_svelte_block_children(p, children) ==
    LET c == peek(p)
    IN  IF c = None THEN emit_error("ExpectSvelteBlockEnd", p)
        ELSE IF c = "{" /\ CharAt(p.chars + 1) \in {"/", ":"} THEN Ok(children, p)
        ELSE Try(parse_node(p), LAMBDA node :
                 parse_svelte_block_children(node.p, Append(children, node.val)))

parse_svelte_interpolation(p) ==
    IF peek(p) = "{"
    THEN With(parse_svelte_or_astro_expr(next(p)), LAMBDA expr :
             Ok([type |-> "SvelteInterpolation", expr |-> expr.val], expr.p))
    ELSE emit_error("ExpectSvelteInterpolation", p)

\* loop { ... } of parse_svelte_if_block: the {:else if}, {:else} sections up
\* to the `{/`
RECURSIVE parse_svelte_if_block_loop(_, _, _)
parse_svelte_if_block_loop(p, else_if_blocks, else_children) ==
    IF peek(p) # "{" THEN emit_error("ExpectSvelteBlockEnd", p)
    ELSE
    With(next(p), LAMBDA q :
    IF peek(q) = "/"
    THEN Ok([else_if_blocks |-> else_if_blocks, else_children |-> else_children],
            next(q))
    ELSE IF peek(q) # ":" THEN emit_error("ExpectSvelteBlockEnd", next(q))
    ELSE
    Try(expect_seq(next(q), <<"e", "l", "s", "e">>, "ExpectSvelteElseIfBlock"),
        LAMBDA kw :
    With(skip_ws(kw.p), LAMBDA r :
    IF peek(r) = "i"
    THEN IF peek(next(r)) # "f"
         THEN emit_error("ExpectSvelteElseIfBlock", next(r))
         ELSE With(parse_svelte_or_astro_expr(next(next(r))), LAMBDA expr :
              Try(parse_svelte_block_children(expr.p, <<>>), LAMBDA children :
                  parse_svelte_if_block_loop(
                      children.p,
                      Append(else_if_blocks,
                             [expr |-> expr.val, children |-> children.val]),
                      else_children)))
    ELSE IF peek(r) = "}"
    THEN Try(parse_svelte_block_children(next(r), <<>>), LAMBDA children :
             parse_svelte_if_block_loop(children.p, else_if_blocks,
                                        Some(children.val)))
    ELSE emit_error("ExpectSvelteElseIfBlock", next(r)))))

parse_svelte_if_block(p) ==
    Try(expect_keyword_ws(p, <<"{", "#", "i", "f">>, "ExpectSvelteIfBlock"),
        LAMBDA open :
    With(parse_svelte_or_astro_expr(open.p), LAMBDA expr :
    Try(parse_svelte_block_children(expr.p, <<>>), LAMBDA children :
    Try(parse_svelte_if_block_loop(children.p, <<>>, Absent), LAMBDA rest :
    Try(expect_block_end(rest.p, <<"i", "f">>), LAMBDA close :
        Ok([type |-> "SvelteIfBlock", expr |-> expr.val,
            children |-> children.val,
            else_if_blocks |-> rest.val.else_if_blocks,
            else_children |-> rest.val.else_children], close.p))))))

\* the scan of expr in parse_svelte_each_block
RECURSIVE parse_svelte_each_expr(_, _)
parse_svelte_each_expr(p, end) ==
    LET c == peek(p)
        q == skip_ws(p)
        as == next_if_seq(q, <<"a", "s">>, FALSE)
    IN  IF c = None THEN [end |-> end, p |-> p]
        ELSE IF is_ascii_whitespace(c)
        THEN IF as.hit THEN [end |-> p.chars, p |-> as.p]
             ELSE parse_svelte_each_expr(q, p.chars)
        ELSE parse_svelte_each_expr(next(p), p.chars)

\* Some(routine()?) when the condition holds, None otherwise
optional(cond, r, p) ==
    IF ~cond THEN Ok(Absent, p)
    ELSE IF r.ok THEN Ok(Some(r.val), r.p) ELSE Fail(r)

parse_svelte_each_block(p) ==
    Try(expect_keyword_ws(p, <<"{", "#", "e", "a", "c", "h">>, "ExpectSvelteIfBlock"),
        LAMBDA open :
    With(skip_ws(open.p), LAMBDA p0 :
    With(parse_svelte_each_expr(p0, peek_pos(p0)), LAMBDA sc :
    Try(parse_svelte_binding(skip_ws(sc.p)), LAMBDA binding :
    With(next_if_eq(skip_ws(binding.p), ","), LAMBDA comma :
    Try(optional(comma.hit, parse_identifier(skip_ws(comma.p)), comma.p),
        LAMBDA index :
    With(skip_ws(index.p), LAMBDA p1 :
    Try(optional(peek(p1) = "(", parse_inside(p1, "(", ")", FALSE), p1),
        LAMBDA key :
    With(next_if_eq(skip_ws(key.p), "}"), LAMBDA close :
    IF ~close.hit THEN emit_error("ExpectSvelteEachBlock", close.p)
    ELSE
    Try(parse_svelte_block_children(close.p, <<>>), LAMBDA children :
    With(next_if_seq(children.p, <<"{", ":", "e", "l", "s", "e">>, FALSE),
         LAMBDA kw :
    With(next_if_eq(skip_ws(kw.p), "}"), LAMBDA br :
    With(Trial(children.p,
               IF ~kw.hit THEN emit_error("ExpectSvelteEachBlock", kw.p)
               ELSE IF ~br.hit THEN emit_error("ExpectSvelteEachBlock", br.p)
               ELSE Ok(Absent, br.p)),
         LAMBDA else_open :
    Try(IF ~else_open.ok THEN or_else(children.p, Ok(Absent, else_open.p))
        ELSE optional(TRUE, parse_svelte_block_children(else_open.p, <<>>),
                      else_open.p),
        LAMBDA else_children :
    Try(expect_block_end(else_children.p, <<"{", "/", "e", "a", "c", "h">>),
        LAMBDA end :
        Ok([type |-> "SvelteEachBlock",
            expr |-> Slice(peek_pos(p0), sc.end),
            binding |-> binding.val,
            index |-> index.val, key |-> key.val,
            children |-> children.val,
            else_children |-> else_children.val], end.p))))))))))))))))

parse_svelte_key_block(p) ==
    Try(expect_keyword_ws(p, <<"{", "#", "k", "e", "y">>, "ExpectSvelteKeyBlock"),
        LAMBDA open :
    With(parse_svelte_or_astro_expr(open.p), LAMBDA expr :
    Try(parse_svelte_block_children(expr.p, <<>>), LAMBDA children :
    Try(expect_block_end(children.p, <<"{", "/", "k", "e", "y">>), LAMBDA close :
        Ok([type |-> "SvelteKeyBlock", expr |-> expr.val,
            children |-> children.val], close.p)))))

\* the scan of expr in parse_svelte_await_block
RECURSIVE parse_svelte_await_expr(_, _, _)
parse_svelte_await_expr(p, end, braces_stack) ==
    LET c == peek(p)
        q == skip_ws(p)
        keyword == \/ next_if_seq(q, <<"t", "h", "e", "n">>, FALSE).hit
                   \/ next_if_seq(q, <<"c", "a", "t", "c", "h">>, FALSE).hit
    IN  IF c = None THEN [end |-> end, p |-> p]
        ELSE IF is_ascii_whitespace(c)
        THEN IF keyword THEN [end |-> p.chars, p |-> q]
             ELSE parse_svelte_await_expr(q, end, braces_stack)
        ELSE IF c = "{"
        THEN parse_svelte_await_expr(next(p), p.chars, (braces_stack + 1) % U8)
        ELSE IF c = "}"
        THEN IF braces_stack = 0 THEN [end |-> p.chars, p |-> p]
             ELSE parse_svelte_await_expr(next(p), p.chars, braces_stack - 1)
        ELSE parse_svelte_await_expr(next(p), p.chars, braces_stack)

\* a {:then ...} or {:catch ...} section of parse_svelte_await_block
parse_svelte_await_section(p, cs, kind, binding_optional) ==
    With(Trial(p, expect_seq(p, cs, kind)), LAMBDA open :
    IF ~open.ok THEN or_else(p, Ok(Absent, open.p))
    ELSE
    With(skip_ws(open.p), LAMBDA p0 :
    Try(optional(~(binding_optional /\ peek(p0) = "}"),
                 parse_svelte_binding(p0), p0),
        LAMBDA binding :
    With(next_if_eq(skip_ws(binding.p), "}"), LAMBDA close :
    IF ~close.hit THEN emit_error(kind, close.p)
    ELSE
    Try(parse_svelte_block_children(close.p, <<>>), LAMBDA children :
        Ok(Some([binding |-> IF binding_optional THEN binding.val
                             ELSE binding.val[1],
                 children |-> children.val]), children.p))))))

parse_svelte_await_block(p) ==
    Try(expect_keyword_ws(p, <<"{", "#", "a", "w", "a", "i", "t">>,
                          "ExpectSvelteIfBlock"),
        LAMBDA open :
    With(skip_ws(open.p), LAMBDA p0 :
    With(parse_svelte_await_expr(p0, peek_pos(p0), 0), LAMBDA sc :
    With(next_if_seq(skip_ws(sc.p), <<"t", "h", "e", "n">>, FALSE),
         LAMBDA then_kw :
    Try(optional(then_kw.hit, parse_svelte_binding(skip_ws(then_kw.p)), then_kw.p),
        LAMBDA then_binding :
    With(next_if_seq(skip_ws(then_binding.p), <<"c", "a", "t", "c", "h">>, FALSE),
         LAMBDA catch_kw :
    Try(optional(catch_kw.hit, parse_svelte_binding(skip_ws(catch_kw.p)),
                 catch_kw.p),
        LAMBDA catch_binding :
    With(next_if_eq(skip_ws(catch_binding.p), "}"), LAMBDA close :
    IF ~close.hit THEN emit_error(ExpectChar("}"), close.p)
    ELSE
    Try(parse_svelte_block_children(close.p, <<>>), LAMBDA children :
    Try(parse_svelte_await_section(children.p, <<"{", ":", "t", "h", "e", "n">>,
                                   "ExpectSvelteThenBlock", FALSE),
        LAMBDA then_block :
    Try(parse_svelte_await_section(then_block.p,
                                   <<"{", ":", "c", "a", "t", "c", "h">>,
                                   "ExpectSvelteCatchBlock", TRUE),
        LAMBDA catch_block :
    Try(expect_block_end(catch_block.p, <<"{", "/", "a", "w", "a", "i", "t">>),
        LAMBDA end :
        Ok([type |-> "SvelteAwaitBlock",
            expr |-> Slice(peek_pos(p0), sc.end),
            then_binding |-> then_binding.val,
            catch_binding |-> catch_binding.val,
            children |-> children.val,
            then_block |-> then_block.val,
            catch_block |-> catch_block.val], end.p)))))))))))))

---------------------------------------------------------------------------
(* The node dispatcher                                                     *)

\* the `{#` arm of parse_node with the error at the offset of the `{`:
\* C6_UncaughtErrorVerbatim tells it from the code
parse_svelte_block_pos_of_brace(p) ==
    With(Trial(p, parse_svelte_if_block(p)), LAMBDA if_block :
    IF if_block.ok THEN if_block
    ELSE
    With(Trial(if_block.p, parse_svelte_each_block(if_block.p)),
         LAMBDA each_block :
    IF each_block.ok THEN or_else(p, each_block)
    ELSE
    With(Trial(each_block.p, parse_svelte_await_block(each_block.p)),
         LAMBDA await_block :
    IF await_block.ok THEN or_else(p, await_block)
    ELSE
    With(Trial(await_block.p, parse_svelte_key_block(await_block.p)),
         LAMBDA key_block :
    IF key_block.ok THEN or_else(p, key_block)
    ELSE MkErr("UnknownSvelteBlock", p.chars, "parse_node", key_block.p)))))

\* the `{#` arm of parse_node with the key block tried first:
\* C15_UnknownSvelteBlock tells it from the code
parse_svelte_block_key_first(p) ==
    With(Trial(p, parse_svelte_key_block(p)), LAMBDA key_block :
    IF key_block.ok THEN key_block
    ELSE
    With(Trial(key_block.p, parse_svelte_if_block(key_block.p)),
         LAMBDA if_block :
    IF if_block.ok THEN or_else(p, if_block)
    ELSE
    With(Trial(if_block.p, parse_svelte_each_block(if_block.p)),
         LAMBDA each_block :
    IF each_block.ok THEN or_else(p, each_block)
    ELSE
    With(Trial(each_block.p, parse_svelte_await_block(each_block.p)),
         LAMBDA await_block :
    IF await_block.ok THEN or_else(p, await_block)
    ELSE MkErr("UnknownSvelteBlock", p.chars + 1, "parse_node", await_block.p)))))

\* the `{#` arm of parse_node: the four block parsers tried in turn, every
\* failure turned into UnknownSvelteBlock at the offset of the `#`
parse_svelte_block(p) ==
    With(Trial(p, parse_svelte_if_block(p)), LAMBDA if_block :
    IF if_block.ok THEN if_block
    ELSE
    With(Trial(if_block.p, parse_svelte_each_block(if_block.p)),
         LAMBDA each_block :
    IF each_block.ok THEN or_else(p, each_block)
    ELSE
    With(Trial(each_block.p, parse_svelte_await_block(each_block.p)),
         LAMBDA await_block :
    IF await_block.ok THEN or_else(p, await_block)
    ELSE
    With(Trial(await_block.p, parse_svelte_key_block(await_block.p)),
         LAMBDA key_block :
    IF key_block.ok THEN or_else(p, key_block)
    ELSE MkErr("UnknownSvelteBlock", p.chars + 1, "parse_node", key_block.p)))))

parse_node(p) ==
    LET c == peek(p)
        d == CharAt(p.chars + 1)
    IN  IF c = None THEN emit_error("ExpectElement", p)
        ELSE IF c = "<"
        THEN IF is_tag_name_char(d) THEN parse_element(p)
             ELSE IF d = "!"
             THEN IF language \in {"Html", "Astro", "Jinja", "Vento"}
                  THEN With(Trial(p, parse_comment(p)), LAMBDA comment :
                       IF comment.ok THEN comment
                       ELSE
                       With(Trial(comment.p, parse_doctype(comment.p)),
                            LAMBDA doctype :
                       IF doctype.ok THEN or_else(p, doctype)
                       ELSE or_else(p, parse_text_node(doctype.p))))
                  ELSE parse_comment(p)
             ELSE IF d = ">" /\ language = "Astro" THEN parse_element(p)
             ELSE parse_text_node(p)
        ELSE IF c = "{"
        THEN IF d = "{" /\ language \in {"Vue", "Jinja"}
             THEN Try(parse_mustache_interpolation(p), LAMBDA expr :
                      Ok([type |-> IF language = "Vue" THEN "VueInterpolation"
                                   ELSE "JinjaInterpolation",
                          expr |-> expr.val], expr.p))
             ELSE IF d = "{" /\ language = "Vento"
             THEN parse_vento_tag_or_block(p, Absent)
             ELSE IF d = "#" /\ language = "Svelte"
             THEN parse_svelte_block(p)
             ELSE IF d = "#" /\ language = "Jinja" THEN parse_jinja_comment(p)
             ELSE IF d = "@" THEN parse_svelte_at_tag(p)
             ELSE IF d = "%" /\ language = "Jinja"
             THEN parse_jinja_tag_or_block(p, Absent)
             ELSE IF language = "Svelte" THEN parse_svelte_interpolation(p)
             ELSE IF language = "Astro" THEN parse_astro_expr(p)
             ELSE parse_text_node(p)
        ELSE IF c = "-" /\ language = "Astro" /\ ~p.has_astro_front_matter
        THEN IF d = "-" /\ CharAt(p.chars + 2) = "-"
             THEN parse_astro_front_matter(p)
             ELSE parse_text_node(p)
        ELSE parse_text_node(p)

---------------------------------------------------------------------------
(* The parser as a state machine: Parser::new, then either parse_root,     *)
(* whose loop takes one step per top-level node, or one direct call of a   *)
(* scanning routine on the fresh parser                                    *)

\* the number of fragments an input is made of, at most
MaxFrags == 3

CommonFragments ==
    {<<"<", "a", ">">>, <<"<", "/", "A", " ", ">">>, <<"x", "\n">>,
     <<"<", "!", "-", "-">>, <<"-", "-", ">">>}

HtmlFragments ==
    {<<"<", "b", "r", ">">>, <<"<", "/", "b", "r", ">">>,
     <<"<", "p", "r", "e", ">">>, <<"<", "/", "p", "r", "e", ">">>, <<"\"">>}

VueFragments ==
    {<<"{", "{">>, <<"}", "}">>, <<"<", "a", " ", "v", "-", ">">>,
     <<"<", "a", " ", ":", "b", ">">>, <<"<", "a", " ", "=", ">">>}

SvelteFragments ==
    {<<"{", "#", "i", "f", " ", "x", "}">>, <<"{", "/", "i", "f", "}">>,
     <<"{", ":", "e", "l", "s", "e", "}">>,
     <<"{", "#", "k", "e", "y", " ", "x", "}">>,
     <<"<", "a", " ", "b", "=", "c", ">">>, <<"<", "/", "b", ">">>}

AstroFragments ==
    {<<"{">>, <<"}">>, <<"<", "a", "/", ">", "\n">>, <<"-", "-", "-">>}

JinjaFragments ==
    {<<"{", "%", " ", "i", "f", " ", "x", " ", "%", "}">>,
     <<"{", "%", " ", "e", "n", "d", "i", "f", " ", "%", "}">>,
     <<"{", "%", " ", "e", "l", "s", "e", " ", "%", "}">>,
     <<"{", "%", " ", "e", "n", "d", "f", "o", "r", " ", "%", "}">>, <<"{", "%">>,
     <<"{", "{">>}

VentoFragments ==
    {<<"{", "{", " ", "i", "f", " ", "x", " ", "}", "}">>,
     <<"{", "{", " ", "/", "i", "f", " ", "}", "}">>, <<"{", "{">>, <<"}", "}">>}

FragmentsOf(lang) ==
    CommonFragments \cup
    CASE lang = "Html" -> HtmlFragments
      [] lang = "Vue" -> VueFragments
      [] lang = "Svelte" -> SvelteFragments
      [] lang = "Astro" -> AstroFragments
      [] lang = "Jinja" -> JinjaFragments
      [] lang = "Vento" -> VentoFragments

RECURSIVE Concat(_)
Concat(seqs) == IF seqs = <<>> THEN <<>> ELSE Head(seqs) \o Concat(Tail(seqs))

Inputs(frags, n) == {Concat(fs) : fs \in UNION {[1..k -> frags] : k \in 0..n}}

\* the parser object as the routines see it
Parser ==
    [chars |-> chars, has_astro_front_matter |-> state.has_astro_front_matter,
     errors |-> errors, trials |-> trials]

\* Parser::new(source, language)
Init ==
    /\ language \in Languages
    /\ source \in Inputs(FragmentsOf(language), MaxFrags)
    /\ chars = 0
    /\ state = [has_astro_front_matter |-> FALSE]
    /\ errors = <<>>
    /\ trials = <<>>
    /\ root = <<>>
    /\ result = None
    /\ routine = None
    /\ pc = "new"

Leave(p) ==
    /\ chars' = p.chars
    /\ state' = [has_astro_front_matter |-> p.has_astro_front_matter]
    /\ errors' = p.errors
    /\ trials' = p.trials

\* children.push(self.parse_node()?) with a node
ParseRootPush ==
    /\ pc \in {"new", "parse_root"}
    /\ peek(Parser) # None
    /\ LET r == parse_node(Parser)
       IN  /\ r.ok
           /\ root' = Append(root, r.val)
           /\ Leave(r.p)
    /\ pc' = "parse_root"
    /\ routine' = "parse_root"
    /\ UNCHANGED <<source, language, result>>

\* children.push(self.parse_node()?) with an error: parse_root returns it
ParseRootErr ==
    /\ pc \in {"new", "parse_root"}
    /\ peek(Parser) # None
    /\ LET r == parse_node(Parser)
       IN  /\ ~r.ok
           /\ result' = [ok |-> FALSE, err |-> r.err]
           /\ Leave(r.p)
    /\ pc' = "done"
    /\ routine' = "parse_root"
    /\ UNCHANGED <<source, language, root>>

\* the loop ends at end of input: Ok(Root { children })
ParseRootOk ==
    /\ pc \in {"new", "parse_root"}
    /\ peek(Parser) = None
    /\ result' = [ok |-> TRUE, val |-> [children |-> root]]
    /\ pc' = "done"
    /\ routine' = "parse_root"
    /\ UNCHANGED <<source, language, chars, state, errors, trials, root>>

\* the scanning routines that can be called on a fresh parser, in the
\* languages whose grammar uses them
Routines ==
    {"parse_comment", "parse_attr_value"}
    \cup (IF language \in {"Vue", "Jinja", "Vento"}
          THEN {"parse_mustache_interpolation"} ELSE {})
    \cup (IF language = "Jinja" THEN {"parse_jinja_tag"} ELSE {})

Call(name, p) ==
    CASE name = "parse_comment" -> parse_comment(p)
      [] name = "parse_attr_value" -> parse_attr_value(p)
      [] name = "parse_mustache_interpolation" -> parse_mustache_interpolation(p)
      [] name = "parse_jinja_tag" -> parse_jinja_tag(p)

\* one routine called on the parser just built
CallRoutine ==
    /\ pc = "new"
    /\ \E name \in Routines :
           LET r == Call(name, Parser)
           IN  /\ routine' = name
               /\ result' = IF r.ok THEN [ok |-> TRUE, val |-> r.val]
                            ELSE [ok |-> FALSE, err |-> r.err]
               /\ Leave(r.p)
    /\ pc' = "returned"
    /\ UNCHANGED <<source, language, root>>

Next == ParseRootPush \/ ParseRootErr \/ ParseRootOk \/ CallRoutine

Spec == Init /\ [][Next]_vars

\* parse_root runs to its return: the caller is sequential code, nothing
\* suspends it between two iterations of the loop.  This is weak fairness
\* of Next, WF_<<chars, root, pc>>(Next), written out: a step of Next is
\* possible exactly while pc is "new" or "parse_root", and under [][Next]_vars
\* every step that changes chars, root or pc is a step of Next
Running == pc \in {"new", "parse_root"}

LiveSpec ==
    /\ Init /\ [][Next]_vars
    /\ ([]<>(~Running) \/ []<><<TRUE>>_<<chars, root, pc>>)

---------------------------------------------------------------------------
(* Open tags: the inputs are one `<p` with some attributes and a tail      *)

\* the number of attributes of an open tag, at most
MaxAttrs == 2

CommonAttrs == {<<" ", "b">>, <<" ", "b", "=", "c">>, <<" ", "=">>, <<"\n">>}

VueAttrs ==
    {<<" ", ":", "c", "l", "a", "s", "s", "=", "\"", "c", "\"">>,
     <<" ", "v", "-", "i", "f", "=", "\"", "o", "k", "\"">>, <<" ", "@", "x">>, <<" ", "#", "s">>, <<" ", "v", "-">>}

BracedAttrs == {<<" ", "{", "x", "}">>, <<" ", "b", "=", "{", "x", "}">>, <<" ", "b", "=">>}

AttrsOf(lang) ==
    CommonAttrs \cup
    CASE lang = "Vue" -> VueAttrs
      [] lang \in {"Svelte", "Astro"} -> BracedAttrs
      [] OTHER -> {}

OpenTagTails ==
    {<<">", "{", "{", " ", "n", "a", "m", "e", " ", "}", "}", "<", "/", "p", ">">>,
     <<">">>, <<"/", ">">>}

OpenTags(lang) ==
    {<<"<", "p">> \o attrs \o tail :
        attrs \in Inputs(AttrsOf(lang), MaxAttrs), tail \in OpenTagTails}

AttrInit ==
    /\ language \in Languages
    /\ source \in OpenTags(language)
    /\ chars = 0
    /\ state = [has_astro_front_matter |-> FALSE]
    /\ errors = <<>>
    /\ trials = <<>>
    /\ root = <<>>
    /\ result = None
    /\ routine = None
    /\ pc = "new"

AttrSpec == AttrInit /\ [][Next]_vars

---------------------------------------------------------------------------
(* Astro front matter: the inputs are an opening fence at the top level,   *)
(* after a text or inside an element, a body of script tokens, and a tail  *)

\* the number of tokens of a front-matter body, at most
MaxBody == 3

FrontMatterHeads ==
    {<<"-", "-", "-">>, <<"<", "a", ">", "-", "-", "-">>,
     <<"x", "\n", "-", "-", "-">>}

ScriptTokens ==
    {<<"{">>, <<"}">>, <<"\"">>, <<Backtick>>, <<"$", "{">>, <<"/", "/">>,
     <<"\n">>, <<"/", "*">>, <<"*", "/">>, <<"\\">>}

FrontMatterTails ==
    {<<>>, <<"-", "-", "-">>, <<"-", "-", "-", "<", "/", "a", ">">>,
     <<"-", "-", "-", "-", "-", "-">>}

FrontMatterInputs ==
    {head \o body \o tail :
        head \in FrontMatterHeads, body \in Inputs(ScriptTokens, MaxBody),
        tail \in FrontMatterTails}

AstroInit ==
    /\ language = "Astro"
    /\ source \in FrontMatterInputs
    /\ chars = 0
    /\ state = [has_astro_front_matter |-> FALSE]
    /\ errors = <<>>
    /\ trials = <<>>
    /\ root = <<>>
    /\ result = None
    /\ routine = None
    /\ pc = "new"

AstroSpec == AstroInit /\ [][Next]_vars

---------------------------------------------------------------------------
(* Svelte blocks: the inputs are openers and closers of the four blocks    *)

SvelteBlockFragments ==
    {<<"{", "#", "i", "f", " ", "x", "}">>, <<"{", "/", "i", "f", "}">>,
     <<"{", "#", "e", "a", "c", "h", " ", "a", " ", "a", "s", " ", "b", "}">>, <<"{", "/", "e", "a", "c", "h", "}">>,
     <<"{", "#", "e", "a", "c", "h", " ", "{", "a", " ", "a", "s", " ", "b", "}", " ", "a", "s", " ", "c", "}">>,
     <<"{", "#", "e", "a", "c", "h", " ", "a", " ", "a", "s", "x", "}">>,
     <<"{", "#", "a", "w", "a", "i", "t", " ", "x", "}">>, <<"{", "/", "a", "w", "a", "i", "t", "}">>,
     <<"{", "#", "a", "w", "a", "i", "t", " ", "x", " ", "t", "h", "e", "n", " ", "y", "}">>,
     <<"{", "#", "a", "w", "a", "i", "t", " ", "{", "a", " ", "t", "h", "e", "n", " ", "b", "}", " ", "t", "h", "e", "n", " ", "c", "}">>,
     <<"{", "#", "k", "e", "y", " ", "x", "}">>, <<"{", "/", "k", "e", "y", "}">>,
     <<"{", ":", "e", "l", "s", "e", "}">>, <<"{", "#", "x", "}">>, <<"<", "a", ">">>}

SvelteInit ==
    /\ language = "Svelte"
    /\ source \in Inputs(SvelteBlockFragments, MaxFrags)
    /\ chars = 0
    /\ state = [has_astro_front_matter |-> FALSE]
    /\ errors = <<>>
    /\ trials = <<>>
    /\ root = <<>>
    /\ result = None
    /\ routine = None
    /\ pc = "new"

SvelteSpec == SvelteInit /\ [][Next]_vars

----------------------------------------------------------------------------
(* Text: the inputs are the characters that begin or end a text node in    *)
(* some language, in every order                                           *)

TextFragments ==
    {<<"{">>, <<"}">>, <<"<">>, <<">">>, <<"/">>, <<"!">>, <<"%">>, <<"#">>, <<"@">>, <<"x">>, <<"<", "p", ">">>}

TextInit ==
    /\ language \in Languages
    /\ source \in Inputs(TextFragments, MaxFrags)
    /\ chars = 0
    /\ state = [has_astro_front_matter |-> FALSE]
    /\ errors = <<>>
    /\ trials = <<>>
    /\ root = <<>>
    /\ result = None
    /\ routine = None
    /\ pc = "new"

TextSpec == TextInit /\ [][Next]_vars

----------------------------------------------------------------------------
(* Raw text: the inputs are open and close tags of an element that holds   *)
(* raw text, around the characters that begin a construct elsewhere        *)

RawTextFragments ==
    {<<"<", "p", "r", "e", ">">>, <<"<", "/", "p", "r", "e", ">">>, <<"<", "/", "P", "R", "E", " ", ">">>, <<"<", "p", "r", "e", "/", ">">>, <<"<", "/", "p", "r", "e", "x", ">">>, <<"<", "/">>, <<"<", "a", "/", ">">>, <<"<", "!", "-", "-">>,
     <<"{">>, <<"x">>, <<"\n">>}

RawTextInit ==
    /\ language \in Languages
    /\ source \in Inputs(RawTextFragments, MaxFrags)
    /\ chars = 0
    /\ state = [has_astro_front_matter |-> FALSE]
    /\ errors = <<>>
    /\ trials = <<>>
    /\ root = <<>>
    /\ result = None
    /\ routine = None
    /\ pc = "new"

RawTextSpec == RawTextInit /\ [][Next]_vars

---------------------------------------------------------------------------
(* Deep braces: the inputs are one brace expression, as a node or as the   *)
(* value of an attribute, with inner braces nested up to the width of the  *)
(* depth counter and beyond                                                *)

\* the deepest nesting of inner braces
MaxDepth == 257

Braces(c, n) == [i \in 1..n |-> c]

BraceDepths == {0, 1, MaxDepth - 2, MaxDepth - 1, MaxDepth}

BraceHeads == {<<>>, <<" ">>}

BraceTails == {<<>>, <<">">>, <<"}", "x">>}

DeepInputs ==
    {<<"{">> \o head \o Braces("{", n) \o <<"x">> \o Braces("}", n + m) \o tail :
        head \in BraceHeads, n \in BraceDepths, m \in 0..1, tail \in BraceTails}

\* the parser has taken the `{` that opens the expression
ExprInit ==
    /\ language \in {"Svelte", "Astro"}
    /\ source \in DeepInputs
    /\ chars = 1
    /\ state = [has_astro_front_matter |-> FALSE]
    /\ errors = <<>>
    /\ trials = <<>>
    /\ root = <<>>
    /\ result = None
    /\ routine = None
    /\ pc = "new"

\* parse_svelte_or_astro_expr called with the cursor just past the `{`
CallExpr ==
    /\ pc = "new"
    /\ LET r == parse_svelte_or_astro_expr(Parser)
       IN  /\ result' = [ok |-> TRUE, val |-> r.val]
           /\ Leave(r.p)
    /\ routine' = "parse_svelte_or_astro_expr"
    /\ pc' = "returned"
    /\ UNCHANGED <<source, language, root>>

ExprSpec == ExprInit /\ [][CallExpr]_vars

---------------------------------------------------------------------------
(* Walking the tree                                                        *)

\* the nodes of an Option<Vec<Node>>
OptNodes(opt) == IF opt = Absent THEN <<>> ELSE opt[1]

\* the nodes of the Children / Template entries of a body
RECURSIVE EntryNodes(_)
EntryNodes(entries) ==
    IF entries = <<>> THEN <<>>
    ELSE (IF Head(entries).variant \in {"Children", "Template"}
          THEN Head(entries).nodes ELSE <<>>) \o EntryNodes(Tail(entries))

RECURSIVE SectionNodes(_)
SectionNodes(sections) ==
    IF sections = <<>> THEN <<>>
    ELSE Head(sections).children \o SectionNodes(Tail(sections))

\* the nodes directly below a node
ChildNodes(n) ==
    CASE n.type = "Element" -> n.children
      [] n.type = "AstroExpr" -> EntryNodes(n.children)
      [] n.type \in {"JinjaBlock", "VentoBlock"} -> EntryNodes(n.body)
      [] n.type = "SvelteIfBlock" ->
             n.children \o SectionNodes(n.else_if_blocks) \o OptNodes(n.else_children)
      [] n.type = "SvelteEachBlock" -> n.children \o OptNodes(n.else_children)
      [] n.type = "SvelteAwaitBlock" ->
             n.children \o SectionNodes(n.then_block) \o SectionNodes(n.catch_block)
      [] n.type = "SvelteKeyBlock" -> n.children
      [] OTHER -> <<>>

\* a sequence of nodes and everything below them, in document order
RECURSIVE AllNodes(_)
AllNodes(nodes) ==
    IF nodes = <<>> THEN <<>>
    ELSE <<Head(nodes)>> \o AllNodes(ChildNodes(Head(nodes))) \o AllNodes(Tail(nodes))

\* the nodes parse_root has produced so far
Tree == AllNodes(root)

NodesOfType(type) == {i \in DOMAIN Tree : Tree[i].type = type}

\* does the text `term` occur in the source at an offset >= from
OccursFrom(term, from) ==
    \E k \in from..(Len(source) - Len(term)) :
        SubSeq(source, k + 1, k + Len(term)) = term

\* the source begins with `prefix`
SourceStartsWith(prefix) == starts_with(source, prefix)

Returned == pc = "done" /\ result.ok

Failed == pc = "done" /\ ~result.ok

---------------------------------------------------------------------------
(* Properties                                                              *)

\* C1: every TextNode has line_breaks equal to the number of '\n' characters
\* in its raw slice, whether it is made by parse_text_node, by
\* parse_raw_text_node or by the whitespace folding of parse_astro_expr
C1_LineBreaks ==
    \A i \in NodesOfType("TextNode") :
        Tree[i].line_breaks = CountChar(Str(Tree[i].raw), "\n")

\* a Root is returned that holds a text node whose raw begins with a newline
\* and has more than one line break
C1_Witness ==
    /\ Returned
    /\ \E i \in NodesOfType("TextNode") :
           /\ Tree[i].line_breaks >= 2
           /\ CharAt(Tree[i].raw.s) = "\n"

\* C2: an Element with void_element or self_closing has no children
C2_VoidOrSelfClosingEmpty ==
    \A i \in NodesOfType("Element") :
        (Tree[i].void_element \/ Tree[i].self_closing) => Tree[i].children = <<>>

\* a void element has been parsed and text follows its open tag
C2_Witness ==
    \E i \in NodesOfType("Element") :
        /\ Tree[i].void_element
        /\ ~Tree[i].self_closing
        /\ Tree[i].end < Len(source)
        /\ CharAt(Tree[i].end) = "x"

\* the text source[from..to) is a close tag `</name` ws* `>` whose name
\* equals tag_name ignoring ASCII case
IsCloseTagOf(from, to, tag_name) ==
    /\ to - from >= 3 + Len(tag_name)
    /\ CharAt(from) = "<"
    /\ CharAt(from + 1) = "/"
    /\ str_eq_ignore_ascii_case(SubSeq(source, from + 3, from + 2 + Len(tag_name)),
                                tag_name)
    /\ \A k \in (from + 2 + Len(tag_name))..(to - 2) : is_ascii_whitespace(CharAt(k))
    /\ CharAt(to - 1) = ">"

\* C3: an Element that is neither self-closing nor void ends with a close tag
\* of its own name (ignoring ASCII case)
C3_CloseTagMatches ==
    \A i \in NodesOfType("Element") :
        (~Tree[i].void_element /\ ~Tree[i].self_closing) =>
            \E from \in Tree[i].tag_name.e..Tree[i].end :
                IsCloseTagOf(from, Tree[i].end, Str(Tree[i].tag_name))

\* an element closed by a close tag written in another case, with whitespace
\* before the `>`
C3_Witness ==
    \E i \in NodesOfType("Element") :
        /\ ~Tree[i].void_element /\ ~Tree[i].self_closing
        /\ CharAt(Tree[i].end - 2) = " "
        /\ CharAt(Tree[i].end - 3) # CharAt(Tree[i].tag_name.s)

\* C4: in the children of every AstroExpr no two consecutive entries are
\* both Script and no two consecutive entries are both Template
C4_ScriptTemplateAlternate ==
    \A i \in NodesOfType("AstroExpr") :
        \A k \in 1..(Len(Tree[i].children) - 1) :
            Tree[i].children[k].variant # Tree[i].children[k + 1].variant

\* an Astro expression with a Template entry followed by a Script entry
C4_Witness ==
    \E i \in NodesOfType("AstroExpr") :
        \E k \in 1..(Len(Tree[i].children) - 1) :
            /\ Tree[i].children[k].variant = "Template"
            /\ Tree[i].children[k + 1].variant = "Script"

\* C5: the body of every JinjaBlock begins with a Tag, the opener, and ends
\* with a Tag whose tag name is `end` followed by the opener's tag name
C5_JinjaBlockDelimited ==
    \A i \in NodesOfType("JinjaBlock") :
        LET body == Tree[i].body
        IN  /\ Len(body) >= 2
            /\ body[1].variant = "Tag"
            /\ body[Len(body)].variant = "Tag"
            /\ parse_jinja_tag_name(body[Len(body)].tag) =
                   <<"e", "n", "d">> \o parse_jinja_tag_name(body[1].tag)

\* a Jinja block with children between its opener and its closer
C5_Witness ==
    \E i \in NodesOfType("JinjaBlock") :
        /\ Len(Tree[i].body) >= 3
        /\ Tree[i].body[2].variant = "Children"

KindPos(e) == [kind |-> e.kind, pos |-> e.pos]

Min(S) == CHOOSE m \in S : \A n \in S : m <= n

\* the errors no successful alternative has recovered
Unrecovered == {i \in DOMAIN errors : ~errors[i].recovered}

\* the error was built inside a try_parse trial that failed
Caught(i) ==
    \E t \in DOMAIN trials :
        ~trials[t].ok /\ trials[t].efrom < i /\ i <= trials[t].eto

Uncaught == {i \in DOMAIN errors : ~Caught(i)}

\* C6: when parse_root fails it returns the first error detected and not
\* recovered by a successful alternative, with the kind and position it was
\* emitted with, also when that error was detected inside the children of a
\* Svelte block
C6_FirstUnrecoveredVerbatim ==
    Failed =>
        /\ Unrecovered # {}
        /\ result.err = KindPos(errors[Min(Unrecovered)])

\* C6 as the code has it: when parse_root fails it returns the first error
\* built outside every failed try_parse trial, with the kind and position it
\* was built with; an error inside a failed trial is dropped, and when the
\* four trials of a Svelte `{#` all fail the error is UnknownSvelteBlock at
\* the offset of the `#`, built by parse_node with the cursor back on the `{`
C6_UncaughtErrorVerbatim ==
    Failed =>
        /\ Uncaught # {}
        /\ LET e == errors[Min(Uncaught)]
           IN  /\ result.err = KindPos(e)
               /\ e.by = "parse_node" =>
                      /\ language = "Svelte"
                      /\ e.kind = "UnknownSvelteBlock"
                      /\ CharAt(e.pos) = "#"
                      /\ chars = e.pos - 1
                      /\ CharAt(chars) = "{"

\* parse_root has failed with UnknownSvelteBlock although the first error,
\* never recovered, was the unclosed element inside the block
C6_Witness ==
    /\ Failed
    /\ result.err.kind = "UnknownSvelteBlock"
    /\ errors # <<>>
    /\ errors[1].kind = "ExpectCloseTag"
    /\ ~errors[1].recovered
    /\ Caught(1)

\* C7: every SyntaxError has pos equal to the offset of the character the
\* cursor would read next when the error is built, or to the input length at
\* end of input, whatever its kind
C7_PosIsPeekOffset ==
    \A i \in DOMAIN errors : errors[i].pos = errors[i].at

\* C7 as the code has it: an error built by emit_error has pos equal to the
\* offset the cursor would read next (the input length at end of input); the
\* ExpectCloseTag that parse_element builds for a close tag of another name
\* has the offset of the `/` of that close tag, the cursor being past the
\* close tag's name; the UnknownSvelteBlock that parse_node builds has the
\* offset of the `#`, one past the cursor, which is back on the `{`
C7_ErrorPositions ==
    \A i \in DOMAIN errors :
        LET e == errors[i]
        IN  /\ e.at \in 0..Len(source)
            /\ e.by = "emit_error" => e.pos = e.at
            /\ e.by = "parse_element" =>
                   /\ e.kind = "ExpectCloseTag"
                   /\ CharAt(e.pos - 1) = "<"
                   /\ CharAt(e.pos) = "/"
                   /\ e.pos + 1 < e.at
                   /\ \A k \in (e.pos + 1)..(e.at - 1) : is_tag_name_char(CharAt(k))
            /\ e.by = "parse_node" =>
                   /\ e.kind = "UnknownSvelteBlock"
                   /\ CharAt(e.pos) = "#"
                   /\ e.pos = e.at + 1

\* errors of the three origins have been built in one parse: by emit_error,
\* by parse_element for a close tag of another name, and by parse_node for
\* a Svelte block
C7_Witness ==
    /\ \E i \in DOMAIN errors : errors[i].by = "emit_error"
    /\ \E i \in DOMAIN errors :
           errors[i].by = "parse_element" /\ errors[i].pos # errors[i].at
    /\ \E i \in DOMAIN errors :
           errors[i].by = "parse_node" /\ errors[i].pos # errors[i].at

\* the source begins with `open` and `close` does not occur after it
Unterminated(open, close) ==
    SourceStartsWith(open) /\ ~OccursFrom(close, Len(open))

\* C8: a comment, a quoted attribute value, a mustache interpolation and a
\* Jinja tag whose closing delimiter is missing are accepted: the routine
\* returns success with the cursor at end of input and builds no error
C8_UnterminatedAccepted ==
    (/\ pc = "returned"
     /\ \/ /\ routine = "parse_comment"
           /\ Unterminated(<<"<", "!", "-", "-">>, <<"-", "-", ">">>)
        \/ /\ routine = "parse_attr_value"
           /\ \/ Unterminated(<<"\"">>, <<"\"">>)
              \/ Unterminated(<<"'">>, <<"'">>)
        \/ /\ routine = "parse_mustache_interpolation"
           /\ Unterminated(<<"{", "{">>, <<"}", "}">>)
        \/ /\ routine = "parse_jinja_tag"
           /\ Unterminated(<<"{", "%">>, <<"%", "}">>))
    => /\ result.ok
       /\ chars = Len(source)
       /\ errors = <<>>

\* parse_mustache_interpolation has returned on a source that opens with
\* `{{`, goes on, and never closes it
C8_Witness ==
    /\ pc = "returned"
    /\ routine = "parse_mustache_interpolation"
    /\ Unterminated(<<"{", "{">>, <<"}", "}">>)
    /\ Len(source) > 2
    /\ result.ok
    /\ chars = Len(source)

\* the least offset >= from at which `term` occurs in the source
FirstOccurrence(term, from) ==
    Min({k \in from..(Len(source) - Len(term)) :
             SubSeq(source, k + 1, k + Len(term)) = term})

\* C9: parse_comment on a source that begins with `<!--` returns as raw the
\* text between the `<!--` and the first `-->`, or the whole text up to the
\* end of the input when there is no `-->`
C9_CommentRaw ==
    (/\ pc = "returned"
     /\ routine = "parse_comment"
     /\ SourceStartsWith(<<"<", "!", "-", "-">>))
    => /\ result.ok
       /\ result.val.raw =
              Slice(4, IF OccursFrom(<<"-", "-", ">">>, 4)
                       THEN FirstOccurrence(<<"-", "-", ">">>, 4)
                       ELSE Len(source))

\* C10: a try_parse trial that fails leaves the cursor where it was before
\* the trial and has_astro_front_matter as it was (the language is written
\* by no routine); a trial that succeeds leaves the cursor where the routine
\* stopped
C10_TrialFrame ==
    \A t \in DOMAIN trials :
        LET tr == trials[t]
        IN  /\ ~tr.ok => tr.to = tr.from /\ tr.flag_after = tr.flag
            /\ tr.ok => tr.to = tr.stop /\ tr.flag_after = tr.flag

\* a Svelte block trial has failed after parsing nodes of its body, and
\* another trial has succeeded after consuming input
C10_Witness ==
    /\ \E t \in DOMAIN trials :
           /\ ~trials[t].ok
           /\ CharAt(trials[t].from + 1) = "#"
           /\ trials[t].stop >= trials[t].from + 9
    /\ \E t \in DOMAIN trials : trials[t].ok /\ trials[t].stop > trials[t].from

\* the attribute variants parse_attr can build in a language
AttrTypes(lang) ==
    {"NativeAttribute"} \cup
    CASE lang = "Vue" -> {"VueDirective"}
      [] lang = "Svelte" -> {"SvelteAttribute"}
      [] lang = "Astro" -> {"AstroAttribute"}
      [] OTHER -> {}

\* C11: every attribute of every Element is of a variant of the language:
\* native only in Html, Jinja and Vento, native or the language's own in Vue,
\* Svelte and Astro; and in these three a native attribute begins where a
\* trial of the language's own routine began, failed and put the cursor back
C11_AttrVariants ==
    \A i \in NodesOfType("Element") :
        \A k \in DOMAIN Tree[i].attrs :
            LET attr == Tree[i].attrs[k]
            IN  /\ attr.type \in AttrTypes(language)
                /\ (attr.type = "NativeAttribute"
                    /\ language \in {"Vue", "Svelte", "Astro"})
                   => \E t \in DOMAIN trials :
                          /\ trials[t].from = attr.name.s
                          /\ ~trials[t].ok
                          /\ trials[t].to = attr.name.s

\* an element is returned whose attributes are one of the language's own
\* variant and a native one, the native one after a trial that had consumed
\* input before it failed
C11_Witness ==
    /\ Returned
    /\ \E i \in NodesOfType("Element") :
           /\ \E k \in DOMAIN Tree[i].attrs :
                  Tree[i].attrs[k].type \in AttrTypes(language) \ {"NativeAttribute"}
           /\ \E k \in DOMAIN Tree[i].attrs :
                  /\ Tree[i].attrs[k].type = "NativeAttribute"
                  /\ \E t \in DOMAIN trials :
                         /\ trials[t].from = Tree[i].attrs[k].name.s
                         /\ trials[t].stop > trials[t].from
                         /\ ~trials[t].ok

\* <p :class="c" v-if="ok">{{ name }}</p>
VIfExample ==
    <<"<", "p", " ", ":", "c", "l", "a", "s", "s", "=", "\"", "c", "\"", " ", "v", "-", "i", "f", "=", "\"", "o", "k", "\"", ">">>
    \o <<"{", "{", " ", "n", "a", "m", "e", " ", "}", "}", "<", "/", "p", ">">>

\* the text of an Option<&str>
OptStr(opt) == IF opt = Absent THEN None ELSE Str(opt[1])

\* the Root of VIfExample but for the name of its second directive
VIfExampleRoot(name) ==
    /\ Len(root) = 1
    /\ root[1].type = "Element"
    /\ Str(root[1].tag_name) = <<"p">>
    /\ Len(root[1].attrs) = 2
    /\ LET a == root[1].attrs[1]
           b == root[1].attrs[2]
       IN  /\ a.type = "VueDirective" /\ Str(a.name) = <<":">>
           /\ OptStr(a.arg_and_modifiers) = <<"c", "l", "a", "s", "s">>
           /\ OptStr(a.value) = <<"c">>
           /\ b.type = "VueDirective" /\ Str(b.name) = name
           /\ b.arg_and_modifiers = Absent
           /\ OptStr(b.value) = <<"o", "k">>
    /\ Len(root[1].children) = 1
    /\ root[1].children[1].type = "VueInterpolation"
    /\ Str(root[1].children[1].expr) = <<" ", "n", "a", "m", "e", " ">>

\* C12: in Vue, a directive written with `:`, `@` or `#` has that character
\* as its name, and a directive written `v-<ident>` has <ident> as its name,
\* without the `v-`; parse_root on `<p :class="c" v-if="ok">{{ name }}</p>`
\* returns one Element p with the directives {":", "class", "c"} and
\* {"if", none, "ok"} and the single child VueInterpolation " name "
C12_VueDirectiveNames ==
    language = "Vue" =>
        /\ \A i \in NodesOfType("Element") :
               \A k \in DOMAIN Tree[i].attrs :
                   LET name == Tree[i].attrs[k].name
                   IN  Tree[i].attrs[k].type = "VueDirective" =>
                           \/ /\ name.e = name.s + 1
                              /\ CharAt(name.s) \in {":", "@", "#"}
                           \/ /\ name.s >= 2 /\ name.e > name.s
                              /\ CharAt(name.s - 2) = "v" /\ CharAt(name.s - 1) = "-"
                              /\ \A j \in name.s..(name.e - 1) :
                                     is_identifier_char(CharAt(j))
                              /\ ~is_identifier_char(CharAt(name.e))
        /\ (source = VIfExample /\ pc = "done")
           => result.ok /\ VIfExampleRoot(<<"i", "f">>)

\* C12 as the specification has it: the second directive of the example is
\* recorded with the name `v-if`
C12_VIfExample ==
    (language = "Vue" /\ source = VIfExample /\ pc = "done")
    => result.ok /\ VIfExampleRoot(<<"v", "-", "i", "f">>)

\* parse_root has returned the Root of the example
C12_Witness ==
    language = "Vue" /\ source = VIfExample /\ Returned

\* the kinds of the errors the child loops of the containers build
ContainerEndKinds ==
    {"ExpectCloseTag", "ExpectJinjaBlockEnd", "ExpectVentoBlockEnd",
     "ExpectSvelteBlockEnd"}

\* errors[i] was built at end of input by the loop of a container still open
EndOfInputInContainer(i) ==
    /\ errors[i].by = "emit_error"
    /\ errors[i].at = Len(source)
    /\ errors[i].kind \in ContainerEndKinds

\* C13 as the specification has it: when end of input is met inside a
\* container, parse_root returns no Root, and but for a Svelte block it
\* returns the error of the container (ExpectCloseTag, ExpectJinjaBlockEnd,
\* ExpectVentoBlockEnd) at the input length
C13_ContainerErrorReturned ==
    pc = "done" =>
        \A i \in DOMAIN errors :
            EndOfInputInContainer(i) =>
                /\ ~result.ok
                /\ errors[i].kind # "ExpectSvelteBlockEnd" =>
                       result.err = [kind |-> errors[i].kind, pos |-> Len(source)]

\* C13: when end of input is met inside a container, parse_root returns no
\* Root; it returns the error of the container at the input length unless
\* the container is, or is inside, a Svelte block, and then it returns
\* UnknownSvelteBlock at the offset of the `#` of the outermost such block
C13_EndOfInputInContainer ==
    pc = "done" =>
        \A i \in DOMAIN errors :
            EndOfInputInContainer(i) =>
                /\ ~result.ok
                /\ IF Caught(i)
                   THEN /\ language = "Svelte"
                        /\ result.err.kind = "UnknownSvelteBlock"
                        /\ result.err.pos = chars + 1
                        /\ CharAt(chars) = "{" /\ CharAt(chars + 1) = "#"
                   ELSE result.err = [kind |-> errors[i].kind, pos |-> Len(source)]

\* parse_root has failed at end of input inside an element that is inside a
\* Svelte block, and the error returned is not the element's
C13_Witness ==
    /\ Failed
    /\ \E i \in DOMAIN errors :
           /\ EndOfInputInContainer(i)
           /\ errors[i].kind = "ExpectCloseTag"
           /\ Caught(i)
           /\ result.err # KindPos(errors[i])

\* C14: has_astro_front_matter never goes back from true to false and is
\* true in the Astro dialect only; the tree holds at most one
\* AstroFrontMatter node, and while the flag is set no step adds another one
C14_FrontMatterOnce ==
    /\ [](/\ state.has_astro_front_matter => language = "Astro"
          /\ Cardinality(NodesOfType("AstroFrontMatter")) <= 1
          /\ NodesOfType("AstroFrontMatter") # {} => state.has_astro_front_matter)
    /\ [][state.has_astro_front_matter =>
              /\ state'.has_astro_front_matter
              /\ Cardinality(NodesOfType("AstroFrontMatter")') =
                     Cardinality(NodesOfType("AstroFrontMatter"))]_vars

\* a Root is returned whose first node is the front matter and whose next
\* node is a text that begins with a later `---`
C14_Witness ==
    /\ Returned
    /\ Len(root) >= 2
    /\ root[1].type = "AstroFrontMatter"
    /\ root[2].type = "TextNode"
    /\ starts_with(Str(root[2].raw), <<"-", "-", "-">>)

\* the keyword of a Svelte block and its rank in the order of the trials
SvelteKeyword(type) ==
    CASE type = "SvelteIfBlock" -> <<"i", "f">>
      [] type = "SvelteEachBlock" -> <<"e", "a", "c", "h">>
      [] type = "SvelteAwaitBlock" -> <<"a", "w", "a", "i", "t">>
      [] type = "SvelteKeyBlock" -> <<"k", "e", "y">>

SvelteRank(type) ==
    CASE type = "SvelteIfBlock" -> 0
      [] type = "SvelteEachBlock" -> 1
      [] type = "SvelteAwaitBlock" -> 2
      [] type = "SvelteKeyBlock" -> 3

\* the offset of the `{` of the block n, whose expr begins after the
\* keyword and whitespace
SvelteBlockStart(n) ==
    LET kw == <<"{", "#">> \o SvelteKeyword(n.type)
    IN  CHOOSE s \in 0..n.expr.s :
            /\ s + Len(kw) < n.expr.s
            /\ SubSeq(source, s + 1, s + Len(kw)) = kw
            /\ \A j \in (s + Len(kw))..(n.expr.s - 1) : is_ascii_whitespace(CharAt(j))

\* the trials that began at offset s and failed
FailedTrialsAt(s) == {t \in DOMAIN trials : trials[t].from = s /\ ~trials[t].ok}

\* C15: in Svelte every error parse_node builds at a `{#` is
\* UnknownSvelteBlock at the offset of the `#`, built after four trials from
\* the `{` have failed, wherever inside the block they failed; when
\* parse_root fails with the cursor left on a `{#` that is the error it
\* returns; and a block of the tree was accepted after as many failed trials
\* from its `{` as blocks come before it in the order if, each, await, key
C15_UnknownSvelteBlock ==
    language = "Svelte" =>
        /\ \A i \in DOMAIN errors :
               errors[i].by = "parse_node" =>
                   /\ errors[i].kind = "UnknownSvelteBlock"
                   /\ CharAt(errors[i].pos - 1) = "{" /\ CharAt(errors[i].pos) = "#"
                   /\ Cardinality(FailedTrialsAt(errors[i].pos - 1)) = 4
        /\ (Failed /\ CharAt(chars) = "{" /\ CharAt(chars + 1) = "#")
           => result.err = [kind |-> "UnknownSvelteBlock", pos |-> chars + 1]
        /\ \A i \in DOMAIN Tree :
               Tree[i].type \in {"SvelteIfBlock", "SvelteEachBlock",
                                 "SvelteAwaitBlock", "SvelteKeyBlock"}
               => LET s == SvelteBlockStart(Tree[i])
                  IN  /\ Cardinality(FailedTrialsAt(s)) = SvelteRank(Tree[i].type)
                      /\ \E t \in DOMAIN trials : trials[t].from = s /\ trials[t].ok

\* parse_root has failed with UnknownSvelteBlock for a block whose if trial
\* failed deep inside its children, after a key block had been accepted
C15_Witness ==
    /\ language = "Svelte"
    /\ Failed
    /\ result.err.kind = "UnknownSvelteBlock"
    /\ \E t \in FailedTrialsAt(result.err.pos - 1) :
           trials[t].stop >= trials[t].from + 9
    /\ \E i \in DOMAIN Tree : Tree[i].type = "SvelteKeyBlock"

\* parse_node called with the cursor at offset k and the flag flag
ParseNodeAt(k, flag) ==
    parse_node([Parser EXCEPT !.chars = k, !.has_astro_front_matter = flag])

\* when parse_root has returned: parse_node called at any offset of the
\* source, as the loops of parse_root, of the elements and of the blocks
\* call it, with the flag unset or as parse_root left it, takes at least
\* one character when it succeeds
EveryNodeTakesACharacter ==
    pc = "done" =>
        \A k \in 0..(Len(source) - 1) :
            \A flag \in {FALSE, state.has_astro_front_matter} :
                LET r == ParseNodeAt(k, flag)
                IN  r.ok => r.p.chars > k

\* C16: parse_root returns on every input; a successful parse_node takes at
\* least one character, so the cursor moves forward with every top-level
\* node and every child; parse_root returns a Root only with the cursor at
\* end of input and an error otherwise
C16_Progress ==
    /\ <>(pc \in {"done", "returned"})
    /\ [](EveryNodeTakesACharacter)
    /\ [](pc = "done" => IF chars = Len(source) /\ result.ok
                         THEN result.val.children = root
                         ELSE ~result.ok /\ chars <= Len(source))
    /\ [][pc' = "parse_root" => chars' > chars /\ Len(root') = Len(root) + 1]_vars

\* parse_root has returned a Root at end of input, with an element that
\* has children
C16_Witness ==
    /\ Returned
    /\ chars = Len(source)
    /\ \E i \in DOMAIN root :
           root[i].type = "Element" /\ Len(root[i].children) >= 1

\* C17: every AstroFrontMatter node of the tree is a direct child of Root:
\* a `---` among the children of an element or inside an Astro expression
\* is not parsed as front matter
C17_FrontMatterTopLevel ==
    Cardinality(NodesOfType("AstroFrontMatter")) =
        Cardinality({j \in DOMAIN root : root[j].type = "AstroFrontMatter"})

\* the first offset k >= from where `term` stands in the source, or the
\* length of the source
FirstAt(term, from) ==
    IF OccursFrom(term, from)
    THEN CHOOSE k \in from..(Len(source) - Len(term)) :
             /\ SubSeq(source, k + 1, k + Len(term)) = term
             /\ \A j \in from..(k - 1) : SubSeq(source, j + 1, j + Len(term)) # term
    ELSE Len(source)

\* the iteration i of the scan reads the `/` of a `//` or a `/*` outside a
\* string and outside a comment
CommentOpens(scan, i) ==
    /\ CharAt(scan[i].at) = "/"
    /\ CharAt(scan[i].at + 1) \in {"/", "*"}
    /\ last(scan[i].stack) \notin {"'", "\"", Backtick, "/", "*"}

\* the offset where the comment opened at offset `at` ends: its newline, or
\* the `*` of its `*/`
CommentEnd(at) ==
    IF CharAt(at + 1) = "/" THEN FirstAt(<<"\n">>, at + 2)
    ELSE FirstAt(<<"*", "/">>, at + 2)

\* the front matter nodes of the tree
FrontMatters == {Tree[i] : i \in NodesOfType("AstroFrontMatter")}

\* C18: a comment that opens outside a string, at the top level, inside
\* braces or inside `${ }`, pushes its marker, and up to its end every
\* iteration of the scan begins with that stack: nothing inside the comment
\* changes the stack or ends the front matter
C18_CommentsSkipped ==
    \A n \in FrontMatters : \A i \in DOMAIN n.scan :
        CommentOpens(n.scan, i) =>
            \A j \in DOMAIN n.scan :
                (j > i /\ n.scan[j].at <= CommentEnd(n.scan[i].at)) =>
                    /\ n.scan[j].at >= n.scan[i].at + 2
                    /\ n.scan[j].stack =
                           Append(n.scan[i].stack, CharAt(n.scan[i].at + 1))

Fence == <<"-", "-", "-">>

\* the iteration i of the scan reads the first `-` of a `---`
AtFence(scan, i) ==
    <<CharAt(scan[i].at), CharAt(scan[i].at + 1), CharAt(scan[i].at + 2)>> = Fence

\* the scan of the front matter n ended at a closing fence
Closed(n) ==
    /\ n.scan # <<>>
    /\ n.scan[Len(n.scan)].at = n.raw.e
    /\ AtFence(n.scan, Len(n.scan))

\* C19: the raw of a front matter begins after the opening fence; the scan
\* ends at the first `---` it meets with the stack empty and raw ends there,
\* a `---` met with a quote, a brace or a marker on the stack does not end
\* it, and no `---` inside a comment ends it; a backslash read inside a
\* string takes the next character with it and leaves the stack alone
C19_ClosingFence ==
    \A n \in FrontMatters :
        /\ SubSeq(source, n.raw.s - 2, n.raw.s) = Fence
        /\ n.raw.e >= n.raw.s
        /\ \A i \in DOMAIN n.scan :
               /\ (AtFence(n.scan, i) /\ n.scan[i].stack = <<>>)
                  => i = Len(n.scan) /\ n.raw.e = n.scan[i].at
               /\ (AtFence(n.scan, i) /\ n.scan[i].stack # <<>>)
                  => ~(Closed(n) /\ i = Len(n.scan))
               /\ CommentOpens(n.scan, i)
                  => ~(/\ Closed(n)
                       /\ n.scan[i].at < n.raw.e
                       /\ n.raw.e <= CommentEnd(n.scan[i].at))
               /\ (/\ CharAt(n.scan[i].at) = "\\"
                   /\ last(n.scan[i].stack) \in {"'", "\"", Backtick}
                   /\ i < Len(n.scan))
                  => /\ n.scan[i + 1].at = n.scan[i].at + 2
                     /\ n.scan[i + 1].stack = n.scan[i].stack
        /\ Closed(n) \/ n.raw.e = n.raw.s

\* the keyword `as` stands at offset k with whitespace on both sides
KeywordAs(k) ==
    /\ is_ascii_whitespace(CharAt(k - 1))
    /\ CharAt(k) = "a" /\ CharAt(k + 1) = "s"
    /\ is_ascii_whitespace(CharAt(k + 2))

\* the braces opened and not closed in the source from offset s up to e
RECURSIVE BraceDepth(_, _)
BraceDepth(s, e) ==
    IF s >= e THEN 0
    ELSE BraceDepth(s, e - 1)
         + (IF CharAt(e - 1) = "{" THEN 1 ELSE IF CharAt(e - 1) = "}" THEN -1 ELSE 0)

\* the first offset at or after k that holds no whitespace
RECURSIVE SkipWs(_)
SkipWs(k) == IF is_ascii_whitespace(CharAt(k)) THEN SkipWs(k + 1) ELSE k

\* the each blocks of the tree
EachBlocks == {Tree[i] : i \in NodesOfType("SvelteEachBlock")}

\* C20: the expr of an each block ends before the whitespace that comes
\* before the first keyword `as` that has whitespace on both sides and
\* stands outside the braces of the expr
C20_EachExpr ==
    \A n \in EachBlocks :
        LET k == SkipWs(n.expr.e)
        IN  /\ KeywordAs(k)
            /\ BraceDepth(n.expr.s, k) = 0
            /\ \A j \in n.expr.s..(k - 1) :
                   ~(KeywordAs(j) /\ BraceDepth(n.expr.s, j) = 0)

\* `then` or `catch` stands at offset k
AwaitKeyword(k) ==
    \/ <<CharAt(k), CharAt(k + 1), CharAt(k + 2), CharAt(k + 3)>> = <<"t", "h", "e", "n">>
    \/ <<CharAt(k), CharAt(k + 1), CharAt(k + 2), CharAt(k + 3), CharAt(k + 4)>>
           = <<"c", "a", "t", "c", "h">>

\* the await blocks of the tree
AwaitBlocks == {Tree[i] : i \in NodesOfType("SvelteAwaitBlock")}

\* C21: the expr of an await block ends with its braces balanced, before
\* the whitespace in front of a `then` or `catch` or at the `}` that closes
\* the tag, and no `then` or `catch` that follows whitespace at brace depth
\* zero stands before that
C21_AwaitExpr ==
    \A n \in AwaitBlocks :
        /\ BraceDepth(n.expr.s, n.expr.e) = 0
        /\ \/ CharAt(n.expr.e) = "}"
           \/ is_ascii_whitespace(CharAt(n.expr.e)) /\ AwaitKeyword(SkipWs(n.expr.e))
        /\ \A j \in (n.expr.s + 1)..(n.expr.e - 1) :
               ~(/\ is_ascii_whitespace(CharAt(j - 1))
                 /\ AwaitKeyword(j)
                 /\ BraceDepth(n.expr.s, j) = 0)

\* the number of characters c in the source from offset s up to e
Count(c, s, e) == Cardinality({j \in s..(e - 1) : CharAt(j) = c})

\* the offset of the `}` that closes the brace opened before offset k: the
\* first `}` with as many `{` as `}` between k and it; or the length of the
\* source
MatchingClose(k) ==
    LET closes == {e \in k..(Len(source) - 1) :
                       CharAt(e) = "}" /\ Count("{", k, e) = Count("}", k, e)}
    IN  IF closes = {} THEN Len(source)
        ELSE CHOOSE e \in closes : \A f \in closes : e <= f

\* C22: parse_svelte_or_astro_expr, called just past a `{` that has a
\* matching `}`, returns the text from the first character that is no
\* whitespace up to that `}`, whatever the depth of the braces inside, and
\* leaves the cursor just after it
C22_MatchingBrace ==
    routine = "parse_svelte_or_astro_expr" =>
        LET close == MatchingClose(1)
        IN  close < Len(source) =>
                /\ result.ok
                /\ result.val = Slice(SkipWs(1), close)
                /\ chars = close + 1

\* the TextNodes parse_raw_text_node has made: the child of an element that
\* holds raw text
RawTexts ==
    {Tree[i].children[1] :
        i \in {j \in NodesOfType("Element") :
                  /\ is_raw_text_element(Str(Tree[j].tag_name))
                  /\ Tree[j].children # <<>>}}

\* the TextNodes parse_text_node has made
Texts == {Tree[i] : i \in NodesOfType("TextNode")} \ RawTexts

\* the `{` at offset k begins a construct of the language
BraceBegins(k) ==
    /\ CharAt(k) = "{"
    /\ CASE language = "Html" -> FALSE
         [] language \in {"Vue", "Vento"} -> CharAt(k + 1) = "{"
         [] language \in {"Svelte", "Astro"} -> TRUE
         [] language = "Jinja" -> CharAt(k + 1) \in {"%", "{", "#"}

\* C23: no TextNode made by parse_text_node holds a `{` that begins a
\* construct of the language: none in Svelte and Astro, no `{{` in Vue and
\* Vento, no `{%`, `{{` or `{#` in Jinja, while in HTML any `{` may be text
C23_TextBraces ==
    \A t \in Texts : \A k \in t.raw.s..(t.raw.e - 1) : ~BraceBegins(k)

\* a run that returned a Root has made a text with a `{` after its first
\* character in Vue, Vento or Jinja
C23_Witness ==
    /\ Returned
    /\ \E t \in Texts : \E k \in t.raw.s..(t.raw.e - 1) :
           /\ CharAt(k) = "{"
           /\ k > t.raw.s
           /\ language \in {"Vue", "Vento", "Jinja"}

\* the `<` at offset k begins a construct: a tag, a close tag, a comment or
\* doctype, or the fragment `<>` of Astro
LtBegins(k) ==
    /\ CharAt(k) = "<"
    /\ \/ is_tag_name_char(CharAt(k + 1))
       \/ CharAt(k + 1) \in {"/", "!"}
       \/ CharAt(k + 1) = ">" /\ language = "Astro"

\* C24 as stated: at no position of the raw slice of a TextNode made by
\* parse_text_node, the first one included, stands a `<` followed by a
\* tag-name character, `/`, `!` or, in Astro, `>`
C24_NoLtBoundary ==
    \A t \in Texts : \A k \in t.raw.s..(t.raw.e - 1) : ~LtBegins(k)

\* C24 amended: such a `<` stands at no position after the first; the first
\* character of a text may be the `<` of `</`, or the `<` of `<!` in HTML,
\* Astro, Jinja and Vento, and is never a `<` followed by a tag-name
\* character or the `<` of Astro's `<>`
C24_TextLt ==
    \A t \in Texts : \A k \in t.raw.s..(t.raw.e - 1) :
        LtBegins(k) =>
            /\ k = t.raw.s
            /\ \/ CharAt(k + 1) = "/"
               \/ CharAt(k + 1) = "!" /\ language \in {"Html", "Astro", "Jinja", "Vento"}

\* a run has returned a Root with a text that begins with `</` and holds a
\* later `<` that begins nothing
C24_Witness ==
    /\ Returned
    /\ \E t \in Texts :
           /\ CharAt(t.raw.s) = "<" /\ CharAt(t.raw.s + 1) = "/"
           /\ \E k \in (t.raw.s + 1)..(t.raw.e - 1) : CharAt(k) = "<"

\* C25: in Vue a node that starts with a single `{`, followed by a character
\* other than `{` (and other than the `@` of an at-tag), is a TextNode that
\* begins with that `{`: parse_root does not stop there
C25_VueSingleBrace ==
    (/\ language = "Vue"
     /\ pc = "done"
     /\ CharAt(0) = "{"
     /\ CharAt(1) \notin {None, "{", "@"})
        => /\ root # <<>>
           /\ root[1].type = "TextNode"
           /\ root[1].raw.s = 0

\* the elements named script, style, pre or textarea, in any case of letters
RawTextElements ==
    {i \in NodesOfType("Element") :
        [k \in 1..Len(Str(Tree[i].tag_name)) |->
            to_ascii_lowercase(Str(Tree[i].tag_name)[k])]
        \in {<<"s", "c", "r", "i", "p", "t">>, <<"s", "t", "y", "l", "e">>, <<"p", "r", "e">>, <<"t", "e", "x", "t", "a", "r", "e", "a">>}}

\* the offset after the `>` of the open tag of an element without attributes
OpenTagEnd(n) ==
    1 + CHOOSE k \in n.tag_name.e..Len(source) :
            /\ CharAt(k) = ">"
            /\ \A j \in n.tag_name.e..(k - 1) : CharAt(j) # ">"

\* C26: an Element named script, style, pre or textarea has no child when it
\* is self-closing or its close tag follows its open tag, and otherwise one
\* child, the TextNode of the text between the open tag and the `</` of the
\* close tag, whatever that text holds
C26_RawText ==
    \A i \in RawTextElements :
        LET n == Tree[i]
        IN  IF n.self_closing THEN n.children = <<>>
            ELSE \E close \in n.tag_name.e..n.end :
                    /\ IsCloseTagOf(close, n.end, Str(n.tag_name))
                    /\ Len(n.children) <= 1
                    /\ \A c \in DOMAIN n.children :
                           /\ n.children[c].type = "TextNode"
                           /\ n.children[c].raw.e = close
                           /\ n.children[c].raw.s < close
                           /\ CharAt(n.children[c].raw.s - 1) = ">"
                    /\ n.attrs = <<>> =>
                           IF close = OpenTagEnd(n) THEN n.children = <<>>
                           ELSE /\ Len(n.children) = 1
                                /\ n.children[1].raw = Slice(OpenTagEnd(n), close)

\* a run has returned a Root with a pre element whose text holds a `<` that
\* begins a tag or a comment elsewhere
C26_Witness ==
    /\ Returned
    /\ \E i \in RawTextElements :
           /\ Len(Tree[i].children) = 1
           /\ \E k \in Tree[i].children[1].raw.s..(Tree[i].children[1].raw.e - 1) :
                  LtBegins(k)

\* the slice holds at least one character and only ASCII whitespace
WhitespaceOnly(sl) ==
    /\ sl.e > sl.s
    /\ \A k \in sl.s..(sl.e - 1) : is_ascii_whitespace(CharAt(k))

\* the offsets at which an Element or a TextNode begins and ends
NodeStart(n) == IF n.type = "Element" THEN n.tag_name.s - 1 ELSE n.raw.s

NodeEnd(n) == IF n.type = "Element" THEN n.end ELSE n.raw.e

\* C27 as stated: in an AstroExpr no Script child next to a Template child
\* consists solely of ASCII whitespace
C27_NoWhitespaceScript ==
    \A i \in NodesOfType("AstroExpr") :
        LET ch == Tree[i].children
        IN  \A j \in DOMAIN ch :
                (/\ ch[j].variant = "Script"
                 /\ \E n \in {j - 1, j + 1} \cap DOMAIN ch : ch[n].variant = "Template")
                    => ~WhitespaceOnly(ch[j].raw)

\* C27 amended: a Script child of whitespace only is the last child and ends
\* at the closing `}`; before that, the whitespace between two nodes is a
\* TextNode of their Template, so that elements and texts of a Template
\* follow each other without a gap
C27_WhitespaceFolded ==
    \A i \in NodesOfType("AstroExpr") :
        LET ch == Tree[i].children
        IN  \A j \in DOMAIN ch :
                /\ (ch[j].variant = "Script" /\ WhitespaceOnly(ch[j].raw))
                       => j = Len(ch) /\ CharAt(ch[j].raw.e) = "}"
                /\ ch[j].variant = "Template" =>
                       \A k \in 1..(Len(ch[j].nodes) - 1) :
                           LET a == ch[j].nodes[k]
                               b == ch[j].nodes[k + 1]
                           IN  {a.type, b.type} \subseteq {"Element", "TextNode"}
                                   => NodeEnd(a) = NodeStart(b)

\* an AstroExpr holds a Template in which a TextNode of whitespace stands
\* between two elements
C27_Witness ==
    \E i \in NodesOfType("AstroExpr") :
        \E j \in DOMAIN Tree[i].children :
            /\ Tree[i].children[j].variant = "Template"
            /\ \E k \in 2..(Len(Tree[i].children[j].nodes) - 1) :
                   LET nodes == Tree[i].children[j].nodes
                   IN  /\ nodes[k].type = "TextNode" /\ WhitespaceOnly(nodes[k].raw)
                       /\ nodes[k - 1].type = "Element"
                       /\ nodes[k + 1].type = "Element"

\* a '\n' stands in the whitespace between the tag name of the element and
\* what follows it
NewlineAfterTagName(n) ==
    \E k \in n.tag_name.e..(SkipWs(n.tag_name.e) - 1) : CharAt(k) = "\n"

\* C28: first_attr_same_line of an Element is false if and only if the
\* element has attributes and a '\n' stands between its tag name and the
\* first of them; without attributes it is true
C28_FirstAttrSameLine ==
    \A i \in NodesOfType("Element") :
        Tree[i].first_attr_same_line
            = ~(Tree[i].attrs # <<>> /\ NewlineAfterTagName(Tree[i]))

SvelteNodeTypes ==
    {"SvelteAtTag", "SvelteInterpolation", "SvelteIfBlock", "SvelteEachBlock",
     "SvelteAwaitBlock", "SvelteKeyBlock"}

\* C29: in HTML, Vue, Astro, Jinja and Vento the tree holds no SvelteAtTag
\* and no other Svelte node
C29_SvelteNodesInSvelteOnly ==
    language # "Svelte" => \A i \in DOMAIN Tree : Tree[i].type \notin SvelteNodeTypes

\* C30: a Svelte interpolation or Astro expression that begins the source and
\* whose closing `}` is missing makes parse_root fail, and every AstroExpr of
\* the tree ends with the Script that stands before its closing `}`
C30_MissingBraceRejected ==
    /\ (/\ pc = "done"
        /\ language \in {"Svelte", "Astro"}
        /\ CharAt(0) = "{"
        /\ \A k \in 1..Len(source) : CharAt(k) # "}")
           => ~result.ok
    /\ \A i \in NodesOfType("AstroExpr") :
           LET ch == Tree[i].children
           IN  /\ ch # <<>>
               /\ ch[Len(ch)].variant = "Script"
               /\ CharAt(ch[Len(ch)].raw.e) = "}"

=============================================================================
